---- MODULE Spec2Model ----
(***************************************************************************)
(* The streaming texture of the EGL renderer                                *)
(* (client/renderers/EGL/texture.c): a triple-buffered, PBO-backed upload  *)
(* pipeline driven by two threads.  The frame thread calls                  *)
(* egl_texture_update / egl_texture_update_from_frame, the render thread    *)
(* calls egl_texture_process and egl_texture_bind; they meet in the         *)
(* four-index state word {w,u,s,d} and in the slots' PBO mappings.          *)
(* A second part models the client's threads (client/src/main.c): lg_run,  *)
(* lg_shutdown, renderThread, frameThread and cursorThread.                 *)
(***************************************************************************)
EXTENDS Integers, Sequences, FiniteSets, TLC

TEXTURE_COUNT == 3

\* renderThread: nanoseconds per second, ticks between two drift checks
NSEC_PER_SEC == 1000000000
RESYNC_TICKS == 100

\* Bounds of the model.
MaxAdvance      == 4     \* frames the producer hands over per setup epoch
MaxFrames       == 5     \* frames published in the frames scenario
MaxChecks       == 2     \* drift checks of the render loop
MaxOverrunCalls == 100   \* producer calls of the overrun scenario

Slots  == 0 .. (TEXTURE_COUNT - 1)
Planes == 0 .. 2

PixelFormats == {"EGL_PF_RGBA", "EGL_PF_BGRA", "EGL_PF_RGBA10", "EGL_PF_YUV420"}
\* a value of enum EGL_PixelFormat that the switch of setup does not list
OtherFormats == {"EGL_PF_OTHER"}

\* the formats setup is called with while the two threads run: the one with
\* three planes and one that setup rejects (the indices, fences and mappings
\* do not depend on the format)
PipelineFormats == {"EGL_PF_YUV420", "EGL_PF_OTHER"}

\* <<width, height, stride>> of the frames offered to setup
Geometries == {<<4, 2, 16>>}

\* where glMapBufferRange fails inside egl_texture_map: at slot 1 (slot 0 is
\* mapped, slots 1 and 2 are not) or nowhere
MapFailures == {1, TEXTURE_COUNT}

\* results of glClientWaitSync
WaitResults == {"GL_ALREADY_SIGNALED", "GL_CONDITION_SATISFIED",
                "GL_TIMEOUT_EXPIRED", "GL_WAIT_FAILED", "GL_INVALID_VALUE"}

VARIABLES
  texture,    \* struct EGL_Texture without state and tex
  state,      \* union TexState: [w, u, s, d]
  tex,        \* struct Tex tex[TEXTURE_COUNT]
  warnDone,   \* the static of egl_warn_slow
  warnings,   \* how often the slow warning has been printed
  crashed,    \* the process died on an invalid memory access
  setupRet,   \* what the last egl_texture_setup returned
  live,       \* GL objects generated and not deleted: textures, samplers, buffers
  lostFence,  \* a fence was overwritten in its slot without being deleted
  pcF,        \* frame thread: position inside update / update_from_frame
  fs,         \* frame thread: the TexState snapshot it loaded
  fret,       \* frame thread: return value of its last call
  fmapValid,  \* frame thread: the mapping it copies into is still mapped
  fcalls,     \* frame thread: GL calls of its last call
  pcR,        \* render thread: position inside process
  rs,         \* render thread: the TexState snapshot it loaded
  rret,       \* render thread: return value of its last call
  rop,        \* render thread: the last call it entered
  glcalls,    \* render thread: GL calls and stores of its current/last call
  adv,        \* advances of each index since the last setup
  ncalls,     \* producer calls made in the overrun scenario
  ticks       \* update calls made in the frames scenario

VARIABLES
  running,    \* state.running
  e_startup,  \* the startup event: none, unset, set, freed
  signals,    \* lgSignalEvent calls made by the render thread
  proc,       \* the client process: alive, exited, crashed
  pcM,        \* main thread: position in lg_run / lg_shutdown
  status,     \* main thread: what lgmpClientInit returned last
  ret,        \* main thread: what lg_run returned
  pcRT,       \* renderThread: position (none: not created)
  pcFT,       \* frameThread: position (none: not created)
  fmsg,       \* frameThread: the message of the last lgmpClientProcess
  ftype,      \* frameThread: frame->type of that message
  fhook,      \* frameThread: on_frame_event was called for that message
  fsub,       \* frameThread: it holds a subscription
  fretried,   \* frameThread: a subscribe returned NO_SUCH_QUEUE
  fstatus,    \* frameThread: what lgmpClientSubscribe returned last
  pcCT,       \* cursorThread: position (none: not created)
  cmsg,       \* cursorThread: the message of the last lgmpClientProcess
  chook,      \* cursorThread: a renderer hook has been called
  csub,       \* cursorThread: it holds a subscription
  cretried,   \* cursorThread: a subscribe returned NO_SUCH_QUEUE
  cstatus,    \* cursorThread: what lgmpClientSubscribe returned last
  qactive     \* host: which queues are active

textureVars == <<texture, state, tex, warnDone, warnings, crashed, setupRet, live,
                 lostFence, pcF, fs, fret, fmapValid, fcalls,
                 pcR, rs, rret, rop, glcalls, adv, ncalls, ticks>>

mainVars         == <<pcM, status, ret>>
frameThreadVars  == <<pcFT, fmsg, ftype, fhook, fsub, fretried, fstatus>>
cursorThreadVars == <<pcCT, cmsg, chook, csub, cretried, cstatus>>
\* renderThread's frame timer (main.c 150-181, 212-221)
VARIABLES
  timerOn,      \* the render loop has read the clock for the first time
  time,         \* the deadline the loop sleeps until
  frameTime,    \* state.frameTime, nanoseconds per tick
  resyncCheck,  \* ticks since the last drift check
  nchecks,      \* drift checks made
  lastCheck     \* the last drift check: clock, deadline, diff, outcome

timerVars == <<timerOn, time, frameTime, resyncCheck, nchecks, lastCheck>>

ZeroTime == [tv_sec |-> 0, tv_nsec |-> 0]

NoCheck == [now |-> ZeroTime, deadline |-> ZeroTime, diff |-> 0, resynced |-> FALSE,
            made |-> FALSE]

clientVars == <<running, e_startup, signals, proc, mainVars, pcRT,
                frameThreadVars, cursorThreadVars, qactive>>

vars == <<textureVars, clientVars, timerVars>>

frameVars  == <<pcF, fs, fret, fmapValid, fcalls>>
renderVars == <<pcR, rs, rret, rop, glcalls>>


ZeroState == [w |-> 0, u |-> 0, s |-> 0, d |-> 0]

\* no GL object exists after egl_texture_init
ZeroLive == [textures |-> 0, samplers |-> 0, buffers |-> 0]

\* (i + 1) % TEXTURE_COUNT
NextIndex(i) == (i + 1) % TEXTURE_COUNT

\* mutant: the store writes the whole word v back from the caller's snapshot
StoreIndex_WholeWord(cur, snap, f, v) == [snap EXCEPT ![f] = v]

\* atomic_store_explicit(&texture->state.<f>, v, ...): a store to one
\* int8_t member of the union; cur is the word in memory, snap the word the
\* caller loaded earlier
StoreIndex(cur, snap, f, v) == [cur EXCEPT ![f] = v]

----------------------------------------------------------------------------
(* egl_texture_init: malloc + memset(0)                                    *)

InitTexture ==
  [ pixFmt        |-> "0",
    width         |-> 0,
    height        |-> 0,
    stride        |-> 0,
    bpp           |-> 0,
    streaming     |-> FALSE,
    ready         |-> FALSE,
    planeCount    |-> 0,
    planes        |-> [p \in Planes |-> <<0, 0, 0>>],
    offsets       |-> [p \in Planes |-> 0],
    intFormat     |-> "0",
    format        |-> "0",
    dataType      |-> "0",
    pboBufferSize |-> 0 ]

InitTex == [i \in Slots |-> [hasPBO |-> FALSE, map |-> FALSE, sync |-> 0]]

\* lg_run line 1155 (state.running = true), nothing created yet
ClientInit ==
  /\ timerOn   = FALSE
  /\ time      = ZeroTime
  /\ frameTime = 0
  /\ resyncCheck = 0
  /\ nchecks   = 0
  /\ lastCheck = NoCheck
  /\ running   = TRUE
  /\ e_startup = "none"
  /\ signals   = 0
  /\ proc      = "alive"
  /\ pcM       = "create_event"
  /\ status    = "none"
  /\ ret       = "none"
  /\ pcRT      = "none"
  /\ pcFT      = "none"
  /\ fmsg      = "none"
  /\ ftype     = "none"
  /\ fhook     = FALSE
  /\ fsub      = FALSE
  /\ fretried  = FALSE
  /\ fstatus   = "none"
  /\ pcCT      = "none"
  /\ cmsg      = "none"
  /\ chook     = FALSE
  /\ csub      = FALSE
  /\ cretried  = FALSE
  /\ cstatus   = "none"
  /\ qactive   = [q \in {"LGMP_Q_FRAME", "LGMP_Q_POINTER"} |-> FALSE]

Init ==
  /\ ClientInit
  /\ texture   = InitTexture
  /\ state     = ZeroState
  /\ tex       = InitTex
  /\ warnDone  = FALSE
  /\ warnings  = 0
  /\ crashed   = FALSE
  /\ setupRet  = FALSE
  /\ live      = ZeroLive
  /\ lostFence = FALSE
  /\ fcalls    = <<>>
  /\ pcF       = "idle"
  /\ fs        = ZeroState
  /\ fret      = TRUE
  /\ fmapValid = FALSE
  /\ pcR       = "idle"
  /\ rs        = ZeroState
  /\ rret      = "none"
  /\ rop       = "none"
  /\ glcalls   = <<>>
  /\ adv       = ZeroState
  /\ ncalls    = 0
  /\ ticks     = 0

----------------------------------------------------------------------------
(* egl_texture_map / egl_texture_unmap                                     *)

\* egl_texture_unmap: every slot with a mapping is unmapped
egl_texture_unmap(t) == [i \in Slots |-> [t[i] EXCEPT !.map = FALSE]]

UnmapCalls(t, i) ==
  IF t[i].map THEN << <<"glUnmapBuffer", i>> >> ELSE <<>>

UnmapEvents(t) == UnmapCalls(t, 0) \o UnmapCalls(t, 1) \o UnmapCalls(t, 2)

\* egl_texture_map: slots are mapped in index order; glMapBufferRange fails
\* at slot failAt (failAt = TEXTURE_COUNT: no failure) and the loop returns
\* false there, leaving the later slots as they were.
egl_texture_map(t, failAt) ==
  [i \in Slots |->
     IF i < failAt THEN [t[i] EXCEPT !.map = TRUE]
     ELSE IF i = failAt THEN [t[i] EXCEPT !.map = FALSE]
     ELSE t[i]]

\* <<name, slot, whether a mapping came back>>
MapCalls(failAt, i) ==
  IF i <= failAt THEN << <<"glMapBufferRange", i, i < failAt>> >> ELSE <<>>

MapEvents(failAt) == MapCalls(failAt, 0) \o MapCalls(failAt, 1) \o MapCalls(failAt, 2)

MapOK(failAt) == failAt = TEXTURE_COUNT

\* one turn of the loop of egl_texture_map: slot i gets the pointer that
\* glMapBufferRange returned, NULL when it failed
MapSlot(t, i, ok) == [t EXCEPT ![i].map = ok]

MapCall(i, ok) == <<"glMapBufferRange", i, ok>>

\* the loop index of egl_texture_map inside a call: the turns made so far
MappedSoFar(calls) ==
  Cardinality({k \in DOMAIN calls : calls[k][1] = "glMapBufferRange"})

----------------------------------------------------------------------------
(* egl_texture_setup                                                       *)

\* the switch(pixFmt) of setup: the fields each case assigns
FormatLayout(t, pixFmt, width, height, stride) ==
  CASE pixFmt = "EGL_PF_BGRA" ->
         [t EXCEPT !.bpp = 4, !.format = "GL_BGRA",
                   !.planes[0] = <<width, height, stride \div 4>>,
                   !.offsets[0] = 0,
                   !.intFormat = "GL_BGRA",
                   !.dataType = "GL_UNSIGNED_BYTE",
                   !.pboBufferSize = height * stride]
    [] pixFmt = "EGL_PF_RGBA" ->
         [t EXCEPT !.bpp = 4, !.format = "GL_RGBA",
                   !.planes[0] = <<width, height, stride \div 4>>,
                   !.offsets[0] = 0,
                   !.intFormat = "GL_BGRA",
                   !.dataType = "GL_UNSIGNED_BYTE",
                   !.pboBufferSize = height * stride]
    [] pixFmt = "EGL_PF_RGBA10" ->
         [t EXCEPT !.bpp = 4, !.format = "GL_RGBA",
                   !.planes[0] = <<width, height, stride \div 4>>,
                   !.offsets[0] = 0,
                   !.intFormat = "GL_RGB10_A2",
                   !.dataType = "GL_UNSIGNED_INT_2_10_10_10_REV",
                   !.pboBufferSize = height * stride]
    [] pixFmt = "EGL_PF_YUV420" ->
         [t EXCEPT !.bpp = 4, !.format = "GL_RED",
                   !.planes[0] = <<width, height, stride>>,
                   !.planes[1] = <<width \div 2, height \div 2, stride \div 2>>,
                   !.planes[2] = <<width \div 2, height \div 2, stride \div 2>>,
                   !.offsets[0] = 0,
                   !.offsets[1] = stride * height,
                   !.offsets[2] = (stride * height) + ((stride * height) \div 4),
                   !.dataType = "GL_UNSIGNED_BYTE",
                   !.pboBufferSize = (stride * height) + ((stride * height) \div 4)
                                       + ((stride * height) \div 4)]
    [] OTHER -> t

\* the local planeCount of setup
FormatPlaneCount(pixFmt) == IF pixFmt = "EGL_PF_YUV420" THEN 3 ELSE 1

\* mutant: setup leaves the ready flag as it was
SetupHeader_KeepsReady(t, pixFmt, width, height, stride, streaming) ==
  [t EXCEPT !.pixFmt = pixFmt, !.width = width, !.height = height,
            !.stride = stride, !.streaming = streaming]

\* lines 169-175: the fields setup assigns before the switch
SetupHeader(t, pixFmt, width, height, stride, streaming) ==
  [t EXCEPT !.pixFmt = pixFmt, !.width = width, !.height = height,
            !.stride = stride, !.streaming = streaming, !.ready = FALSE]

\* lines 281-296: every slot gets a new PBO
SetupPBOs(t) == [i \in Slots |-> [t[i] EXCEPT !.hasPBO = TRUE]]

\* the texture fields after setup (lines 169-241 and 264)
SetupTexture(t, pixFmt, geo, streaming) ==
  LET hdr == SetupHeader(t, pixFmt, geo[1], geo[2], geo[3], streaming)
      lay == FormatLayout(hdr, pixFmt, geo[1], geo[2], geo[3])
      pc  == FormatPlaneCount(pixFmt)
  IN  IF pixFmt \notin PixelFormats
      THEN hdr
      ELSE [lay EXCEPT !.planeCount = IF pc > t.planeCount THEN pc ELSE @]

\* the slots after setup (lines 278-299): unmap, new PBOs, map
SetupTex(t, pixFmt, failAt) ==
  IF pixFmt \notin PixelFormats
  THEN t
  ELSE egl_texture_map(SetupPBOs(egl_texture_unmap(t)), failAt)

\* mutant: the old PBOs are not deleted before the new ones are generated
SetupLive_KeepsOldPBOs(l, t, tx, pixFmt) ==
  IF pixFmt \notin PixelFormats
  THEN l
  ELSE LET pc   == FormatPlaneCount(pixFmt)
           grow == pc > t.planeCount
       IN  [textures |-> IF grow
                         THEN (l.textures - TEXTURE_COUNT * t.planeCount)
                                + TEXTURE_COUNT * pc
                         ELSE l.textures,
            samplers |-> IF grow THEN (l.samplers - t.planeCount) + pc
                                 ELSE l.samplers,
            buffers  |-> l.buffers + TEXTURE_COUNT]

\* the GL objects alive after setup (lines 243-264 and 281-296): when the
\* plane count grows the old samplers and textures are deleted and new ones
\* generated; every slot's old PBO is deleted and a new one generated
SetupLive(l, t, tx, pixFmt) ==
  IF pixFmt \notin PixelFormats
  THEN l
  ELSE LET pc   == FormatPlaneCount(pixFmt)
           grow == pc > t.planeCount
       IN  [textures |-> IF grow
                         THEN (l.textures - TEXTURE_COUNT * t.planeCount)
                                + TEXTURE_COUNT * pc
                         ELSE l.textures,
            samplers |-> IF grow THEN (l.samplers - t.planeCount) + pc
                                 ELSE l.samplers,
            buffers  |-> (l.buffers - Cardinality({i \in Slots : tx[i].hasPBO}))
                           + TEXTURE_COUNT]

\* the value setup returns
SetupResult(pixFmt, failAt) == pixFmt \in PixelFormats /\ MapOK(failAt)

egl_texture_setup(pixFmt, geo, streaming, failAt) ==
  /\ pcF = "idle" /\ pcR = "idle" /\ ~crashed /\ rop # "free"
  /\ texture' = SetupTexture(texture, pixFmt, geo, streaming)
  /\ tex' = SetupTex(tex, pixFmt, failAt)
  /\ setupRet' = SetupResult(pixFmt, failAt)
  /\ live' = SetupLive(live, texture, tex, pixFmt)
  /\ state' = ZeroState
  /\ adv' = ZeroState
  /\ fs' = ZeroState /\ fret' = TRUE
  /\ rop' = "setup" /\ rs' = ZeroState /\ rret' = "none" /\ glcalls' = <<>>
  /\ fcalls' = <<>>
  /\ UNCHANGED <<warnDone, warnings, crashed, lostFence, pcF, fmapValid, pcR>>

\* setup called with a format of fmts and a geometry of geos
SetupWith(fmts, geos) ==
  \E pixFmt \in fmts, geo \in geos, streaming \in BOOLEAN,
     failAt \in MapFailures :
       egl_texture_setup(pixFmt, geo, streaming, failAt)

Setup == SetupWith(PipelineFormats, Geometries)

\* the texture is usable: the last setup returned true and it is not freed
Usable == setupRet /\ ~crashed /\ rop # "free"

----------------------------------------------------------------------------
(* Frame thread: egl_texture_update, egl_texture_update_from_frame           *)

\* mutant: the producer compares with the display index instead of u
Collides_AgainstD(s) == NextIndex(s.w) = s.d

\* if (next == s.u): the producer would run into the uploader
Collides(s) == NextIndex(s.w) = s.u

\* mutant: the static is not consulted, every overrun warns
egl_warn_slow_Always(done) == 1

\* egl_warn_slow: how many warnings it prints, given the static warnDone
egl_warn_slow(done) == IF done THEN 0 ELSE 1

\* lines 338-346: not streaming, egl_texture_update uploads every plane
\* straight into the textures of slot 0, the row length being planes[p][0]
\* mutant: the direct upload goes to the textures of slot 1
DirectUpload_Slot1(t, p) ==
  IF p < t.planeCount
  THEN << <<"glBindTexture", 1, p>>,
          <<"glPixelStorei", t.planes[p][1]>>,
          <<"glTexSubImage2D", 1, p, t.planes[p][1], t.planes[p][1],
            t.planes[p][2], t.offsets[p]>> >>
  ELSE <<>>

DirectUpload(t, p) ==
  IF p < t.planeCount
  THEN << <<"glBindTexture", 0, p>>,
          <<"glPixelStorei", t.planes[p][1]>>,
          <<"glTexSubImage2D", 0, p, t.planes[p][1], t.planes[p][1],
            t.planes[p][2], t.offsets[p]>> >>
  ELSE <<>>

DirectUploads(t) == DirectUpload(t, 0) \o DirectUpload(t, 1) \o DirectUpload(t, 2)

\* entry: the streaming test and the acquire load of the state word.  Not
\* streaming: update uploads straight into the textures of slot 0 and
\* returns true, update_from_frame returns false.
update_Enter(op, limit) ==
  /\ pcF = "idle" /\ Usable
  /\ adv.w < limit
  /\ IF texture.streaming
     THEN /\ fs' = state
          /\ pcF' = "check"
          /\ fret' = fret
          /\ fcalls' = <<>>
     ELSE /\ fs' = fs
          /\ pcF' = "idle"
          /\ fret' = (op = "update")
          /\ fcalls' = IF op = "update" THEN DirectUploads(texture) ELSE <<>>
  /\ UNCHANGED <<texture, state, tex, warnDone, warnings, crashed, setupRet, live,
                 lostFence, fmapValid, renderVars, adv>>

update_Begin(op) == update_Enter(op, MaxAdvance)

\* next == s.u: warn once, drop the frame and return true
update_Check ==
  /\ pcF = "check" /\ ~crashed
  /\ IF Collides(fs)
     THEN /\ warnings' = warnings + egl_warn_slow(warnDone)
          /\ warnDone' = TRUE
          /\ fret' = TRUE
          /\ pcF' = "idle"
     ELSE /\ pcF' = "copy"
          /\ UNCHANGED <<warnings, warnDone, fret>>
  /\ UNCHANGED <<texture, state, tex, crashed, setupRet, live, lostFence,
                 fs, fcalls, fmapValid, renderVars, adv>>

\* memcpy / framebuffer_read starts: texture->tex[s.w].map is read.  A NULL
\* destination is an invalid write: the process dies.
update_CopyBegin ==
  /\ pcF = "copy" /\ ~crashed
  /\ IF tex[fs.w].map
     THEN /\ pcF' = "copying"
          /\ fmapValid' = TRUE
          /\ crashed' = FALSE
     ELSE /\ crashed' = TRUE
          /\ UNCHANGED <<pcF, fmapValid>>
  /\ UNCHANGED <<texture, state, tex, warnDone, warnings, setupRet, live, lostFence,
                 fs, fcalls, fret, renderVars, adv>>

\* the copy ends.  If the render thread unmapped the buffer meanwhile the
\* copy wrote through a dead mapping: it faults, or it is lost unnoticed.
update_CopyEnd ==
  /\ pcF = "copying" /\ ~crashed
  /\ \/ /\ pcF' = "store"
        /\ crashed' = FALSE
     \/ /\ ~fmapValid
        /\ crashed' = TRUE
        /\ pcF' = pcF
  /\ UNCHANGED <<texture, state, tex, warnDone, warnings, setupRet, live, lostFence,
                 fs, fcalls, fret, fmapValid, renderVars, adv>>

\* atomic_store_explicit(&texture->state.w, next, memory_order_release)
update_Store ==
  /\ pcF = "store" /\ ~crashed
  /\ state' = StoreIndex(state, fs, "w", NextIndex(fs.w))
  /\ adv' = [adv EXCEPT !.w = @ + 1]
  /\ fret' = TRUE
  /\ pcF' = "idle"
  /\ UNCHANGED <<texture, tex, warnDone, warnings, crashed, setupRet, live, lostFence,
                 fs, fcalls, fmapValid, renderVars>>

----------------------------------------------------------------------------
(* Render thread: egl_texture_process                                        *)

\* mutant: the test against the schedule index s is missing
CanUpload_IgnoresS(s) ==
  ~(s.u = s.w \/ NextIndex(s.u) = s.d)

\* if (s.u == s.w || nextu == s.s || nextu == s.d) return ...
CanUpload(s) ==
  ~(s.u = s.w \/ NextIndex(s.u) = s.s \/ NextIndex(s.u) = s.d)

\* mutant: process reports OK whether or not anything was ever uploaded
ReadyStatus_AlwaysOK(t) == "EGL_TEX_STATUS_OK"

\* return texture->ready ? EGL_TEX_STATUS_OK : EGL_TEX_STATUS_NOTREADY
ReadyStatus(t) ==
  IF t.ready THEN "EGL_TEX_STATUS_OK" ELSE "EGL_TEX_STATUS_NOTREADY"

\* one glTexSubImage2D of process: <<name, slot, plane, GL_UNPACK_ROW_LENGTH,
\* width, height, offset into the bound PBO>>
\* mutant: the row length is the width of the plane, not its stride
PlaneUpload_WidthAsRowLength(t, slot, p) ==
  IF p < t.planeCount
  THEN << <<"glTexSubImage2D", slot, p, t.planes[p][1], t.planes[p][1],
            t.planes[p][2], t.offsets[p]>> >>
  ELSE <<>>

PlaneUpload(t, slot, p) ==
  IF p < t.planeCount
  THEN << <<"glTexSubImage2D", slot, p, t.planes[p][3], t.planes[p][1],
            t.planes[p][2], t.offsets[p]>> >>
  ELSE <<>>

PlaneUploads(t, slot) ==
  PlaneUpload(t, slot, 0) \o PlaneUpload(t, slot, 1) \o PlaneUpload(t, slot, 2)

\* mutant: u is published before the fence exists
UploadCalls_PublishFirst(t, s) ==
  << <<"glBindBuffer", s.u>> >>
  \o PlaneUploads(t, s.u)
  \o << <<"store_u", NextIndex(s.u)>>, <<"glFenceSync", s.u>>, <<"glFlush">> >>

\* lines 393-410: bind the PBO of slot u, upload every plane, create the
\* fence, flush, publish u
UploadCalls(t, s) ==
  << <<"glBindBuffer", s.u>> >>
  \o PlaneUploads(t, s.u)
  \o << <<"glFenceSync", s.u>>, <<"glFlush">>, <<"store_u", NextIndex(s.u)>> >>

\* entry: the streaming test, the acquire load, the test for work
process_Begin ==
  /\ pcR = "idle" /\ Usable
  /\ rop' = "process"
  /\ glcalls' = <<>>
  /\ IF ~texture.streaming
     THEN /\ rret' = "EGL_TEX_STATUS_OK"
          /\ UNCHANGED <<rs, pcR>>
     ELSE /\ rs' = state
          /\ IF CanUpload(state)
             THEN /\ pcR' = "unmap"
                  /\ rret' = rret
             ELSE /\ pcR' = "idle"
                  /\ rret' = ReadyStatus(texture)
  /\ UNCHANGED <<texture, state, tex, warnDone, warnings, crashed, setupRet, live, lostFence,
                 frameVars, adv>>

\* egl_texture_unmap(texture): a copy of the frame thread that is under way
\* loses its mapping
process_Unmap ==
  /\ pcR = "unmap" /\ ~crashed
  /\ tex' = egl_texture_unmap(tex)
  /\ glcalls' = glcalls \o UnmapEvents(tex)
  /\ fmapValid' = IF pcF = "copying" THEN FALSE ELSE fmapValid
  /\ pcR' = "upload"
  /\ UNCHANGED <<texture, state, warnDone, warnings, crashed, setupRet, live, lostFence,
                 pcF, fs, fret, fcalls, rs, rret, rop, adv>>

\* the uploads from slot u's PBO, the fence, the flush and the store of u
process_Upload ==
  /\ pcR = "upload" /\ ~crashed
  /\ glcalls' = glcalls \o UploadCalls(texture, rs)
  /\ tex' = [tex EXCEPT ![rs.u].sync = 1]
  /\ state' = StoreIndex(state, rs, "u", NextIndex(rs.u))
  /\ adv' = [adv EXCEPT !.u = @ + 1]
  /\ lostFence' = (lostFence \/ tex[rs.u].sync # 0)
  /\ pcR' = "map"
  /\ UNCHANGED <<texture, warnDone, warnings, crashed, setupRet, live,
                 frameVars, rs, rret, rop>>

\* egl_texture_map(texture) called by process, one turn of its loop per
\* step: slot i is mapped, glMapBufferRange failing at slot failAt.  After
\* the last slot, or at the failure (the result is ignored): ready = true;
\* return OK
process_Map(failAt) ==
  /\ pcR = "map" /\ ~crashed
  /\ LET i  == MappedSoFar(glcalls)
         ok == i # failAt
     IN  /\ tex' = MapSlot(tex, i, ok)
         /\ glcalls' = glcalls \o << MapCall(i, ok) >>
         /\ IF ~ok \/ i = TEXTURE_COUNT - 1
            THEN /\ texture' = [texture EXCEPT !.ready = TRUE]
                 /\ rret' = "EGL_TEX_STATUS_OK"
                 /\ pcR' = "idle"
            ELSE UNCHANGED <<texture, rret, pcR>>
  /\ UNCHANGED <<state, warnDone, warnings, crashed, setupRet, live, lostFence,
                 frameVars, rs, rop, adv>>

----------------------------------------------------------------------------
(* Render thread: egl_texture_bind                                           *)

WaitSignaled(res) == res \in {"GL_ALREADY_SIGNALED", "GL_CONDITION_SATISFIED"}

\* mutant: a timeout is handled like a failed wait
WaitFailed_WithTimeout(res) ==
  res \in {"GL_WAIT_FAILED", "GL_INVALID_VALUE", "GL_TIMEOUT_EXPIRED"}

\* mutant: the failure cases are missing from the switch
WaitFailed_Never(res) == FALSE

WaitFailed(res) == res \in {"GL_WAIT_FAILED", "GL_INVALID_VALUE"}

\* mutant: d moves whenever it differs from s
CanDisplay_OnlyDiffers(s) == s.d # s.s

\* mutant: d never moves
CanDisplay_Never(s) == FALSE

\* if (s.d != s.s && nextd != s.s)
CanDisplay(s) == s.d # s.s /\ NextIndex(s.d) # s.s

\* line 431: glClientWaitSync(texture->tex[s.s].sync, 0, 20000000) has
\* returned res
WaitCall(s, res) == <<"glClientWaitSync", s.s, res>>

\* lines 433-451: the switch on the result of the wait.  Yields the
\* snapshot, the slots, the calls made after the wait and whether bind
\* returns EGL_TEX_STATUS_ERROR here.
FenceWait(s, t, res) ==
  IF t[s.s].sync = 0
  THEN [s |-> s, tex |-> t, calls |-> <<>>, error |-> FALSE]
  ELSE IF WaitSignaled(res)
  THEN [s |-> [s EXCEPT !.s = NextIndex(s.s)],
        tex |-> [t EXCEPT ![s.s].sync = 0],
        calls |-> << <<"glDeleteSync", s.s>>, <<"store_s", NextIndex(s.s)>> >>,
        error |-> FALSE]
  ELSE IF WaitFailed(res)
  THEN [s |-> s,
        tex |-> [t EXCEPT ![s.s].sync = 0],
        calls |-> << <<"glDeleteSync", s.s>> >>,
        error |-> TRUE]
  ELSE [s |-> s, tex |-> t, calls |-> <<>>, error |-> FALSE]

\* lines 454-459: the display index
DisplayAdvance(s) ==
  IF CanDisplay(s) THEN [s EXCEPT !.d = NextIndex(s.d)] ELSE s

DisplayCalls(s) ==
  IF CanDisplay(s) THEN << <<"store_d", NextIndex(s.d)>> >> ELSE <<>>

\* lines 462-467: the textures and samplers of slot s.d
BindPlane(t, slot, p) ==
  IF p < t.planeCount
  THEN << <<"glBindTexture", slot, p>>, <<"glBindSampler", p>> >>
  ELSE <<>>

BindCalls(t, slot) ==
  BindPlane(t, slot, 0) \o BindPlane(t, slot, 1) \o BindPlane(t, slot, 2)

\* lines 420-429: the acquire load of the state word, the streaming and
\* ready tests and the test of the fence of slot s.s.  Not streaming: the
\* textures of slot s.d are bound and bind returns OK.  With a fence in
\* place glClientWaitSync is entered.
bind_Begin ==
  /\ pcR = "idle" /\ Usable
  /\ rop' = "bind"
  /\ rs' = state
  /\ IF ~texture.streaming
     THEN /\ glcalls' = BindCalls(texture, state.d)
          /\ rret' = "EGL_TEX_STATUS_OK"
          /\ pcR' = "idle"
     ELSE IF ~texture.ready
     THEN /\ glcalls' = <<>>
          /\ rret' = "EGL_TEX_STATUS_NOTREADY"
          /\ pcR' = "idle"
     ELSE /\ glcalls' = <<>>
          /\ rret' = "none"
          /\ pcR' = IF tex[state.s].sync # 0 THEN "wait" ELSE "display"
  /\ UNCHANGED <<texture, state, tex, warnDone, warnings, crashed, setupRet, live,
                 lostFence, frameVars, adv>>

\* line 431: glClientWaitSync returns res, up to 20 ms after it was entered
bind_Wait(res) ==
  /\ pcR = "wait" /\ ~crashed
  /\ glcalls' = glcalls \o << WaitCall(rs, res) >>
  /\ pcR' = "fence"
  /\ UNCHANGED <<texture, state, tex, warnDone, warnings, crashed, setupRet, live,
                 lostFence, frameVars, rs, rret, rop, adv>>

\* the result of the wait that has just returned
WaitResult(calls) == calls[Len(calls)][3]

\* lines 433-451: the fence is deleted and s stored, or nothing happens
\* after a timeout, or the fence is deleted and bind returns ERROR
bind_Fence ==
  /\ pcR = "fence" /\ ~crashed
  /\ LET f == FenceWait(rs, tex, WaitResult(glcalls))
     IN  /\ glcalls' = glcalls \o f.calls
         /\ tex' = f.tex
         /\ rs' = f.s
         /\ IF f.s.s # rs.s
            THEN /\ state' = StoreIndex(state, rs, "s", f.s.s)
                 /\ adv' = [adv EXCEPT !.s = @ + 1]
            ELSE UNCHANGED <<state, adv>>
         /\ IF f.error
            THEN rret' = "EGL_TEX_STATUS_ERROR" /\ pcR' = "idle"
            ELSE rret' = rret /\ pcR' = "display"
  /\ UNCHANGED <<texture, warnDone, warnings, crashed, setupRet, live,
                 lostFence, frameVars, rop>>

\* lines 454-469: the store of d, the textures and samplers of slot s.d,
\* return OK
bind_Display ==
  /\ pcR = "display" /\ ~crashed
  /\ LET n == DisplayAdvance(rs)
     IN  /\ glcalls' = glcalls \o DisplayCalls(rs) \o BindCalls(texture, n.d)
         /\ rs' = n
         /\ IF n.d # rs.d
            THEN /\ state' = StoreIndex(state, rs, "d", n.d)
                 /\ adv' = [adv EXCEPT !.d = @ + 1]
            ELSE UNCHANGED <<state, adv>>
  /\ rret' = "EGL_TEX_STATUS_OK"
  /\ pcR' = "idle"
  /\ UNCHANGED <<texture, tex, warnDone, warnings, crashed, setupRet, live,
                 lostFence, frameVars, rop>>

----------------------------------------------------------------------------
(* egl_texture_free                                                         *)

\* mutant: free visits the first slot only
FreedSlots_First(t) == {0}

\* line 101: the slots the loop of free visits
FreedSlots(t) == IF t.streaming THEN Slots ELSE {0}

\* lines 103-118: what free does with one slot, in order
FreeSlotCalls(t, tx, i) ==
  IF i \notin FreedSlots(t)
  THEN <<>>
  ELSE (IF tx[i].hasPBO
        THEN << <<"glBindBuffer", i>> >>
             \o (IF tx[i].map THEN << <<"glUnmapBuffer", i>> >> ELSE <<>>)
             \o << <<"glDeleteBuffers", i>> >>
             \o (IF tx[i].sync # 0 THEN << <<"glDeleteSync", i>> >> ELSE <<>>)
        ELSE <<>>)
       \o (IF t.planeCount > 0
           THEN << <<"glDeleteTextures", i, t.planeCount>> >>
           ELSE <<>>)

\* mutant: the samplers are deleted after the slots
FreeCalls_SamplersLast(t, tx) ==
  FreeSlotCalls(t, tx, 0) \o FreeSlotCalls(t, tx, 1) \o FreeSlotCalls(t, tx, 2)
  \o (IF t.planeCount > 0 THEN << <<"glDeleteSamplers", t.planeCount>> >> ELSE <<>>)

\* lines 98-119: the GL calls of free
FreeCalls(t, tx) ==
  (IF t.planeCount > 0 THEN << <<"glDeleteSamplers", t.planeCount>> >> ELSE <<>>)
  \o FreeSlotCalls(t, tx, 0) \o FreeSlotCalls(t, tx, 1) \o FreeSlotCalls(t, tx, 2)

\* the slots after free: a visited slot with a PBO has lost its mapping, its
\* PBO and its fence
FreeTex(t, tx) ==
  [i \in Slots |->
     IF i \in FreedSlots(t) /\ tx[i].hasPBO
     THEN [hasPBO |-> FALSE, map |-> FALSE, sync |-> 0]
     ELSE tx[i]]

\* the GL objects still alive after free
FreeLive(l, t, tx) ==
  [textures |-> l.textures - Cardinality(FreedSlots(t)) * t.planeCount,
   samplers |-> l.samplers - t.planeCount,
   buffers  |-> l.buffers
                  - Cardinality({i \in FreedSlots(t) : tx[i].hasPBO})]

egl_texture_free ==
  /\ pcF = "idle" /\ pcR = "idle" /\ ~crashed /\ rop # "free"
  /\ glcalls' = FreeCalls(texture, tex)
  /\ tex' = FreeTex(texture, tex)
  /\ live' = FreeLive(live, texture, tex)
  /\ rop' = "free" /\ rret' = "none"
  /\ UNCHANGED <<texture, state, warnDone, warnings, crashed, setupRet,
                 lostFence, frameVars, pcR, rs, adv>>

\* lines 472-475
egl_texture_count(t) == t.planeCount

----------------------------------------------------------------------------

Next ==
  \/ Setup /\ UNCHANGED <<ncalls, ticks, clientVars, timerVars>>
  \/ (\E op \in {"update", "update_from_frame"} : update_Begin(op))
       /\ UNCHANGED <<ncalls, ticks, clientVars, timerVars>>
  \/ update_Check /\ UNCHANGED <<ncalls, ticks, clientVars, timerVars>>
  \/ update_CopyBegin /\ UNCHANGED <<ncalls, ticks, clientVars, timerVars>>
  \/ update_CopyEnd /\ UNCHANGED <<ncalls, ticks, clientVars, timerVars>>
  \/ update_Store /\ UNCHANGED <<ncalls, ticks, clientVars, timerVars>>
  \/ process_Begin /\ UNCHANGED <<ncalls, ticks, clientVars, timerVars>>
  \/ process_Unmap /\ UNCHANGED <<ncalls, ticks, clientVars, timerVars>>
  \/ process_Upload /\ UNCHANGED <<ncalls, ticks, clientVars, timerVars>>
  \/ (\E failAt \in MapFailures : process_Map(failAt)) /\ UNCHANGED <<ncalls, ticks, clientVars, timerVars>>
  \/ bind_Begin /\ UNCHANGED <<ncalls, ticks, clientVars, timerVars>>
  \/ (\E res \in WaitResults : bind_Wait(res)) /\ UNCHANGED <<ncalls, ticks, clientVars, timerVars>>
  \/ bind_Fence /\ UNCHANGED <<ncalls, ticks, clientVars, timerVars>>
  \/ bind_Display /\ UNCHANGED <<ncalls, ticks, clientVars, timerVars>>

Spec == Init /\ [][Next]_vars

----------------------------------------------------------------------------
(* The overrun scenario: a first, successful streaming setup, then the      *)
(* producer calls update / update_from_frame while the render thread is     *)
(* paused.                                                                  *)

OverrunInit ==
  \E pixFmt \in PixelFormats, geo \in Geometries :
    /\ ClientInit
    /\ texture   = SetupTexture(InitTexture, pixFmt, geo, TRUE)
    /\ tex       = SetupTex(InitTex, pixFmt, TEXTURE_COUNT)
    /\ setupRet  = SetupResult(pixFmt, TEXTURE_COUNT)
    /\ live      = SetupLive(ZeroLive, InitTexture, InitTex, pixFmt)
    /\ lostFence = FALSE
    /\ fcalls    = <<>>
    /\ state     = ZeroState
    /\ warnDone  = FALSE
    /\ warnings  = 0
    /\ crashed   = FALSE
    /\ pcF       = "idle"
    /\ fs        = ZeroState
    /\ fret      = TRUE
    /\ fmapValid = FALSE
    /\ pcR       = "idle"
    /\ rs        = ZeroState
    /\ rret      = "none"
    /\ rop       = "setup"
    /\ glcalls   = <<>>
    /\ adv       = ZeroState
    /\ ncalls    = 0
    /\ ticks     = 0

OverrunCall ==
  /\ ncalls < MaxOverrunCalls
  /\ ncalls' = ncalls + 1
  /\ UNCHANGED <<ticks, clientVars, timerVars>>
  /\ \E op \in {"update", "update_from_frame"} : update_Begin(op)

OverrunNext ==
  \/ OverrunCall
  \/ update_Check /\ UNCHANGED <<ncalls, ticks, clientVars, timerVars>>
  \/ update_CopyBegin /\ UNCHANGED <<ncalls, ticks, clientVars, timerVars>>
  \/ update_CopyEnd /\ UNCHANGED <<ncalls, ticks, clientVars, timerVars>>
  \/ update_Store /\ UNCHANGED <<ncalls, ticks, clientVars, timerVars>>

SpecOverrun == OverrunInit /\ [][OverrunNext]_vars

----------------------------------------------------------------------------
(* Frames on their way to the display: from a fresh streaming setup the     *)
(* frame thread hands over MaxFrames frames while the render thread calls   *)
(* process and bind again and again, every fence wait succeeding.  The two  *)
(* threads run as they do in the program: neither waits for the other.      *)

\* the results of a wait that found the fence signalled
SignaledResults == {r \in WaitResults : WaitSignaled(r)}

\* the frame thread enters update / update_from_frame with the next frame
TickUpdate ==
  /\ ticks < MaxFrames
  /\ ticks' = ticks + 1
  /\ \E op \in {"update", "update_from_frame"} : update_Enter(op, MaxFrames)
  /\ UNCHANGED <<ncalls, clientVars, timerVars>>

TickNext ==
  \/ TickUpdate
  \/ update_Check /\ UNCHANGED <<ncalls, ticks, clientVars, timerVars>>
  \/ update_CopyBegin /\ UNCHANGED <<ncalls, ticks, clientVars, timerVars>>
  \/ update_CopyEnd /\ UNCHANGED <<ncalls, ticks, clientVars, timerVars>>
  \/ update_Store /\ UNCHANGED <<ncalls, ticks, clientVars, timerVars>>
  \/ process_Begin /\ UNCHANGED <<ncalls, ticks, clientVars, timerVars>>
  \/ process_Unmap /\ UNCHANGED <<ncalls, ticks, clientVars, timerVars>>
  \/ process_Upload /\ UNCHANGED <<ncalls, ticks, clientVars, timerVars>>
  \/ process_Map(TEXTURE_COUNT) /\ UNCHANGED <<ncalls, ticks, clientVars, timerVars>>
  \/ bind_Begin /\ UNCHANGED <<ncalls, ticks, clientVars, timerVars>>
  \/ (\E res \in SignaledResults : bind_Wait(res)) /\ UNCHANGED <<ncalls, ticks, clientVars, timerVars>>
  \/ bind_Fence /\ UNCHANGED <<ncalls, ticks, clientVars, timerVars>>
  \/ bind_Display /\ UNCHANGED <<ncalls, ticks, clientVars, timerVars>>

SpecTicks == OverrunInit /\ [][TickNext]_vars

----------------------------------------------------------------------------
(* The pipeline with a renderer that keeps going: from a fresh streaming    *)
(* setup the producer hands over frames, the render thread calls process    *)
(* and bind again and again, no GL call fails and every fence is signalled  *)
(* in the end (a wait may time out first).                                   *)

\* the results of glClientWaitSync when no wait fails
GoodWaitResults == {r \in WaitResults : ~WaitFailed(r)}

otherVars == <<ncalls, ticks, clientVars, timerVars>>

FlowUpdateSteps ==
  (update_Check \/ update_CopyBegin \/ update_CopyEnd \/ update_Store)
    /\ UNCHANGED otherVars

FlowProcessSteps ==
  (process_Unmap \/ process_Upload \/ process_Map(TEXTURE_COUNT))
    /\ UNCHANGED otherVars

FlowProcessCall == process_Begin /\ UNCHANGED otherVars

FlowBindCall == bind_Begin /\ UNCHANGED otherVars

FlowBindSteps == (bind_Fence \/ bind_Display) /\ UNCHANGED otherVars

FlowBindSignaled ==
  (\E res \in SignaledResults : bind_Wait(res)) /\ UNCHANGED otherVars

FlowNext ==
  \/ (\E op \in {"update", "update_from_frame"} : update_Begin(op))
       /\ UNCHANGED otherVars
  \/ update_Check /\ UNCHANGED otherVars
  \/ update_CopyBegin /\ UNCHANGED otherVars
  \/ update_CopyEnd /\ UNCHANGED otherVars
  \/ update_Store /\ UNCHANGED otherVars
  \/ process_Begin /\ UNCHANGED otherVars
  \/ process_Unmap /\ UNCHANGED otherVars
  \/ process_Upload /\ UNCHANGED otherVars
  \/ process_Map(TEXTURE_COUNT) /\ UNCHANGED otherVars
  \/ bind_Begin /\ UNCHANGED otherVars
  \/ (\E res \in GoodWaitResults : bind_Wait(res)) /\ UNCHANGED otherVars
  \/ bind_Fence /\ UNCHANGED otherVars
  \/ bind_Display /\ UNCHANGED otherVars

\* a call that has begun runs to its end; process and bind are called again
\* and again, and of the waits of bind one finds its fence signalled again
\* and again
SpecFlowFair ==
  /\ OverrunInit /\ [][FlowNext]_vars
  /\ WF_vars(FlowUpdateSteps)
  /\ WF_vars(FlowProcessSteps)
  /\ WF_vars(FlowBindSteps)
  /\ SF_vars(FlowProcessCall)
  /\ SF_vars(FlowBindCall)
  /\ SF_vars(FlowBindSignaled)

----------------------------------------------------------------------------
(* The same pipeline with calls that do not overlap (one thread at a time   *)
(* is inside the texture) and waits that may fail.                          *)

SerialUpdateCall ==
  (pcR = "idle" /\ \E op \in {"update", "update_from_frame"} : update_Begin(op))
    /\ UNCHANGED otherVars

SerialProcessCall == (pcF = "idle" /\ process_Begin) /\ UNCHANGED otherVars

SerialBind == (pcF = "idle" /\ bind_Begin) /\ UNCHANGED otherVars

SerialNext ==
  \/ SerialUpdateCall
  \/ update_Check /\ UNCHANGED otherVars
  \/ update_CopyBegin /\ UNCHANGED otherVars
  \/ update_CopyEnd /\ UNCHANGED otherVars
  \/ update_Store /\ UNCHANGED otherVars
  \/ SerialProcessCall
  \/ process_Unmap /\ UNCHANGED otherVars
  \/ process_Upload /\ UNCHANGED otherVars
  \/ process_Map(TEXTURE_COUNT) /\ UNCHANGED otherVars
  \/ SerialBind
  \/ (\E res \in WaitResults : bind_Wait(res)) /\ UNCHANGED otherVars
  \/ bind_Fence /\ UNCHANGED otherVars
  \/ bind_Display /\ UNCHANGED otherVars

\* every begun call finishes; update, process and bind are called again and
\* again, and a wait on a fence is signalled again and again
SpecSerialFair ==
  /\ OverrunInit /\ [][SerialNext]_vars
  /\ WF_vars(FlowUpdateSteps)
  /\ WF_vars(FlowProcessSteps)
  /\ SF_vars(SerialUpdateCall)
  /\ SF_vars(SerialProcessCall)
  /\ SF_vars(SerialBind)
  /\ WF_vars(FlowBindSteps)
  /\ SF_vars(FlowBindSignaled)

----------------------------------------------------------------------------
(* The life of one texture: init, one setup, any updates, process and bind  *)
(* calls, then free                                                         *)

\* width, height and stride of the frames: small ones, one whose
\* height * stride is not a multiple of 4, and 640x480
LayoutGeometries == {<<4, 2, 16>>, <<8, 4, 32>>, <<6, 3, 6>>, <<640, 480, 640>>}

FirstSetup == rop = "none" /\ SetupWith(PipelineFormats, LayoutGeometries)

TeardownNext ==
  \/ FirstSetup /\ UNCHANGED <<ncalls, ticks, clientVars, timerVars>>
  \/ (\E op \in {"update", "update_from_frame"} : update_Begin(op))
       /\ UNCHANGED <<ncalls, ticks, clientVars, timerVars>>
  \/ update_Check /\ UNCHANGED <<ncalls, ticks, clientVars, timerVars>>
  \/ update_CopyBegin /\ UNCHANGED <<ncalls, ticks, clientVars, timerVars>>
  \/ update_CopyEnd /\ UNCHANGED <<ncalls, ticks, clientVars, timerVars>>
  \/ update_Store /\ UNCHANGED <<ncalls, ticks, clientVars, timerVars>>
  \/ process_Begin /\ UNCHANGED <<ncalls, ticks, clientVars, timerVars>>
  \/ process_Unmap /\ UNCHANGED <<ncalls, ticks, clientVars, timerVars>>
  \/ process_Upload /\ UNCHANGED <<ncalls, ticks, clientVars, timerVars>>
  \/ (\E failAt \in MapFailures : process_Map(failAt)) /\ UNCHANGED <<ncalls, ticks, clientVars, timerVars>>
  \/ bind_Begin /\ UNCHANGED <<ncalls, ticks, clientVars, timerVars>>
  \/ (\E res \in WaitResults : bind_Wait(res)) /\ UNCHANGED <<ncalls, ticks, clientVars, timerVars>>
  \/ bind_Fence /\ UNCHANGED <<ncalls, ticks, clientVars, timerVars>>
  \/ bind_Display /\ UNCHANGED <<ncalls, ticks, clientVars, timerVars>>
  \/ egl_texture_free /\ UNCHANGED <<ncalls, ticks, clientVars, timerVars>>

SpecTeardown == Init /\ [][TeardownNext]_vars

----------------------------------------------------------------------------
(* Setup alone: egl_texture_setup called again and again on one texture,   *)
(* with every format and two geometries                                    *)

SetupGeometries == {<<4, 2, 16>>, <<8, 4, 32>>}

SetupAny ==
  /\ SetupWith(PixelFormats \cup OtherFormats, SetupGeometries)
  /\ UNCHANGED <<ncalls, ticks, clientVars, timerVars>>

SpecSetup == Init /\ [][SetupAny]_vars

\* any setup calls, then free
SetupFreeNext ==
  \/ SetupAny
  \/ egl_texture_free /\ UNCHANGED otherVars

SpecSetupFree == Init /\ [][SetupFreeNext]_vars

----------------------------------------------------------------------------
(* The client's threads (client/src/main.c): lg_run and lg_shutdown on the  *)
(* main thread, renderThread, frameThread and cursorThread.  They meet in   *)
(* state.running and in the startup event.  The LGMP calls and the renderer *)
(* hooks are the environment: each returns any of its statuses.             *)

InitStatuses == {"LGMP_OK", "LGMP_ERR_INVALID_MAGIC", "LGMP_ERR_INVALID_SESSION",
                 "LGMP_ERR_INVALID_VERSION"}

\* mutant: a version mismatch is retried as well
InitRetry_WithVersion ==
  {"LGMP_ERR_INVALID_SESSION", "LGMP_ERR_INVALID_MAGIC", "LGMP_ERR_INVALID_VERSION"}

\* the statuses of lgmpClientInit on which lg_run waits and tries again
InitRetry == {"LGMP_ERR_INVALID_SESSION", "LGMP_ERR_INVALID_MAGIC"}

Queues == {"LGMP_Q_FRAME", "LGMP_Q_POINTER"}

\* what lgmpClientSubscribe can return for a queue the host has or has not
\* activated
SubscribeStatuses(active) ==
  IF active THEN {"LGMP_OK", "LGMP_ERR_INVALID_SESSION"}
            ELSE {"LGMP_ERR_NO_SUCH_QUEUE", "LGMP_ERR_INVALID_SESSION"}

\* mutant: no status of lgmpClientSubscribe is retried
SubscribeRetry_Never(st) == FALSE

\* the status of lgmpClientSubscribe after which the threads sleep 1 ms and
\* call it again
SubscribeRetry(st) == st = "LGMP_ERR_NO_SUCH_QUEUE"

\* mutant: signalling leaves the event as it is
SignalEvent_Lost(e) == e

ProcessStatuses == {"LGMP_OK", "LGMP_ERR_QUEUE_EMPTY", "LGMP_ERR_INVALID_SESSION"}

FrameTypes == {"FRAME_TYPE_RGBA", "FRAME_TYPE_BGRA", "FRAME_TYPE_RGBA10",
               "FRAME_TYPE_YUV420", "FRAME_TYPE_INVALID"}

\* mutant: the default case of the switch does not set error
FrameTypeError_Never(type) == FALSE

\* the switch(frame->type) of frameThread: error is set in the default case
FrameTypeError(type) ==
  type \notin {"FRAME_TYPE_RGBA", "FRAME_TYPE_BGRA", "FRAME_TYPE_RGBA10",
               "FRAME_TYPE_YUV420"}

\* lgmpClientMessageDone on the message last returned by lgmpClientProcess;
\* releasing a message twice is undefined
MessageDone(m) == IF m = "held" THEN "done" ELSE "double"

\* lgSignalEvent on the startup event
SignalEvent(e) == IF e \in {"unset", "set"} THEN "set" ELSE e

Alive == proc = "alive"

\* ---- int_handler, eventFilter (SDL_QUIT, SDL_WINDOWEVENT_CLOSE) ----
Quit ==
  /\ Alive /\ running
  /\ running' = FALSE
  /\ UNCHANGED <<e_startup, signals, proc, mainVars, pcRT, frameThreadVars,
                 cursorThreadVars, qactive>>

\* ---- the host activates a queue ----
HostActivate(q) ==
  /\ Alive /\ ~qactive[q]
  /\ qactive' = [qactive EXCEPT ![q] = TRUE]
  /\ UNCHANGED <<running, e_startup, signals, proc, mainVars, pcRT,
                 frameThreadVars, cursorThreadVars>>

\* ---- lg_run, from the creation of the startup event ----

\* lines 1414-1418
main_CreateEvent(ok) ==
  /\ Alive /\ pcM = "create_event"
  /\ IF ok THEN /\ e_startup' = "unset"
                /\ pcM' = "create_render"
                /\ UNCHANGED ret
           ELSE /\ ret' = "-1"
                /\ pcM' = "shutdown"
                /\ UNCHANGED e_startup
  /\ UNCHANGED <<running, signals, proc, status, pcRT, frameThreadVars,
                 cursorThreadVars, qactive>>

\* lines 1421-1425
main_CreateRender(ok) ==
  /\ Alive /\ pcM = "create_render"
  /\ IF ok THEN /\ pcRT' = "startup"
                /\ pcM' = "init"
                /\ UNCHANGED ret
           ELSE /\ ret' = "-1"
                /\ pcM' = "shutdown"
                /\ UNCHANGED pcRT
  /\ UNCHANGED <<running, e_startup, signals, proc, status, frameThreadVars,
                 cursorThreadVars, qactive>>

\* lines 1432-1445: one pass of while(true)
main_Init(st) ==
  /\ Alive /\ pcM = "init"
  /\ status' = st
  /\ IF st = "LGMP_OK"
     THEN pcM' = "check_running" /\ UNCHANGED ret
     ELSE IF st \in InitRetry
     THEN pcM' = "init_wait" /\ UNCHANGED ret
     ELSE pcM' = "shutdown" /\ ret' = "-1"
  /\ UNCHANGED <<running, e_startup, signals, proc, pcRT, frameThreadVars,
                 cursorThreadVars, qactive>>

\* line 1439: SDL_WaitEventTimeout(NULL, 1000); continue
main_InitWait ==
  /\ Alive /\ pcM = "init_wait"
  /\ pcM' = "init"
  /\ UNCHANGED <<running, e_startup, signals, proc, status, ret, pcRT,
                 frameThreadVars, cursorThreadVars, qactive>>

\* lines 1447-1448
main_CheckRunning ==
  /\ Alive /\ pcM = "check_running"
  /\ IF running THEN pcM' = "create_cursor" /\ UNCHANGED ret
                ELSE pcM' = "shutdown" /\ ret' = "-1"
  /\ UNCHANGED <<running, e_startup, signals, proc, status, pcRT,
                 frameThreadVars, cursorThreadVars, qactive>>

\* lines 1452-1456
main_CreateCursor(ok) ==
  /\ Alive /\ pcM = "create_cursor"
  /\ IF ok THEN /\ pcCT' = "wait"
                /\ pcM' = "create_frame"
                /\ UNCHANGED ret
           ELSE /\ ret' = "1"
                /\ pcM' = "shutdown"
                /\ UNCHANGED pcCT
  /\ UNCHANGED <<running, e_startup, signals, proc, status, pcRT,
                 frameThreadVars, cmsg, chook, csub, cretried, cstatus, qactive>>

\* lines 1458-1462
main_CreateFrame(ok) ==
  /\ Alive /\ pcM = "create_frame"
  /\ IF ok THEN /\ pcFT' = "wait"
                /\ pcM' = "loop"
                /\ UNCHANGED ret
           ELSE /\ ret' = "-1"
                /\ pcM' = "shutdown"
                /\ UNCHANGED pcFT
  /\ UNCHANGED <<running, e_startup, signals, proc, status, pcRT,
                 fmsg, ftype, fhook, fsub, fretried, fstatus, cursorThreadVars, qactive>>

\* lines 1465-1467: while(state.running) SDL_WaitEventTimeout(NULL, 1000)
main_Loop ==
  /\ Alive /\ pcM = "loop"
  /\ IF running THEN pcM' = "session_valid" /\ UNCHANGED ret
                ELSE pcM' = "shutdown" /\ ret' = "0"
  /\ UNCHANGED <<running, e_startup, signals, proc, status, pcRT,
                 frameThreadVars, cursorThreadVars, qactive>>

\* lines 1469-1473: lgmpClientSessionValid
main_SessionValid(valid) ==
  /\ Alive /\ pcM = "session_valid"
  /\ IF valid THEN pcM' = "loop" /\ UNCHANGED ret
              ELSE pcM' = "shutdown" /\ ret' = "0"
  /\ UNCHANGED <<running, e_startup, signals, proc, status, pcRT,
                 frameThreadVars, cursorThreadVars, qactive>>

\* ---- lg_shutdown, called by main after lg_run has returned ----

\* lines 1506-1510
lg_shutdown_Begin ==
  /\ Alive /\ pcM = "shutdown"
  /\ running' = FALSE
  /\ IF pcRT # "none"
     THEN e_startup' = SignalEvent(e_startup) /\ pcM' = "join_render"
     ELSE pcM' = "free" /\ UNCHANGED e_startup
  /\ UNCHANGED <<signals, proc, status, ret, pcRT, frameThreadVars,
                 cursorThreadVars, qactive>>

\* line 1511: lgJoinThread(t_render)
lg_shutdown_Join ==
  /\ Alive /\ pcM = "join_render" /\ pcRT = "done"
  /\ pcM' = "free"
  /\ UNCHANGED <<running, e_startup, signals, proc, status, ret, pcRT,
                 frameThreadVars, cursorThreadVars, qactive>>

\* lines 1514-1520: lgmpClientFree, lgFreeEvent
lg_shutdown_Free ==
  /\ Alive /\ pcM = "free"
  /\ e_startup' = IF e_startup = "none" THEN "none" ELSE "freed"
  /\ pcM' = "exit"
  /\ UNCHANGED <<running, signals, proc, status, ret, pcRT, frameThreadVars,
                 cursorThreadVars, qactive>>

\* main returns: the process ends with whatever threads it still has
main_Exit ==
  /\ Alive /\ pcM = "exit"
  /\ proc' = "exited"
  /\ UNCHANGED <<running, e_startup, signals, mainVars, pcRT, frameThreadVars,
                 cursorThreadVars, qactive>>

\* ---- renderThread ----

\* lines 138-148: render_startup, then lgSignalEvent on both paths
render_Startup(ok) ==
  /\ Alive /\ pcRT = "startup"
  /\ e_startup' = SignalEvent(e_startup)
  /\ signals' = signals + 1
  /\ IF ok THEN pcRT' = "loop" /\ UNCHANGED running
           ELSE pcRT' = "done" /\ running' = FALSE
  /\ UNCHANGED <<proc, mainVars, frameThreadVars, cursorThreadVars, qactive>>

\* lines 154-232: one pass of while(state.running); render() may fail
render_Loop(ok) ==
  /\ Alive /\ pcRT = "loop"
  /\ pcRT' = IF running /\ ok THEN "loop" ELSE "stop"
  /\ UNCHANGED <<running, e_startup, signals, proc, mainVars, frameThreadVars,
                 cursorThreadVars, qactive>>

\* line 234
render_Stop ==
  /\ Alive /\ pcRT = "stop"
  /\ running' = FALSE
  /\ pcRT' = "join_cursor"
  /\ UNCHANGED <<e_startup, signals, proc, mainVars, frameThreadVars,
                 cursorThreadVars, qactive>>

\* lines 236-237: if (t_cursor) lgJoinThread(t_cursor)
render_JoinCursor ==
  /\ Alive /\ pcRT = "join_cursor"
  /\ pcCT \in {"none", "done"}
  /\ pcRT' = "join_frame"
  /\ UNCHANGED <<running, e_startup, signals, proc, mainVars, frameThreadVars,
                 cursorThreadVars, qactive>>

\* lines 239-244: if (t_frame) lgJoinThread(t_frame); deinitialize
render_JoinFrame ==
  /\ Alive /\ pcRT = "join_frame"
  /\ pcFT \in {"none", "done"}
  /\ pcRT' = "done"
  /\ UNCHANGED <<running, e_startup, signals, proc, mainVars, frameThreadVars,
                 cursorThreadVars, qactive>>

\* ---- frameThread ----

\* lines 371-373: lgWaitEvent(e_startup, TIMEOUT_INFINITE); waiting on an
\* event that lg_shutdown has freed is undefined: it returns or it faults
frame_Wait ==
  /\ Alive /\ pcFT = "wait"
  /\ e_startup \in {"set", "freed"}
  /\ \/ /\ pcFT' = IF running THEN "subscribe" ELSE "done"
        /\ UNCHANGED proc
     \/ /\ e_startup = "freed"
        /\ proc' = "crashed"
        /\ UNCHANGED pcFT
  /\ UNCHANGED <<running, e_startup, signals, mainVars, pcRT,
                 fmsg, ftype, fhook, fsub, fretried, fstatus, cursorThreadVars, qactive>>

\* line 376: the test of state.running at the head of the subscribe loop
frame_SubscribeLoop ==
  /\ Alive /\ pcFT = "subscribe"
  /\ pcFT' = IF running THEN "subscribe_call" ELSE "process"
  /\ UNCHANGED <<running, e_startup, signals, proc, mainVars, pcRT,
                 fmsg, ftype, fhook, fsub, fretried, fstatus, cursorThreadVars, qactive>>

\* lines 378-386: lgmpClientSubscribe and the branch on its status
frame_Subscribe(st) ==
  /\ Alive /\ pcFT = "subscribe_call"
  /\ fstatus' = st
  /\ IF st = "LGMP_OK"
     THEN pcFT' = "process" /\ fsub' = TRUE /\ UNCHANGED fretried
     ELSE IF SubscribeRetry(st)
     THEN pcFT' = "subscribe" /\ fretried' = TRUE /\ UNCHANGED fsub
     ELSE pcFT' = "subscribe_failed" /\ UNCHANGED <<fsub, fretried>>
  /\ UNCHANGED <<running, e_startup, signals, proc, mainVars, pcRT, fmsg, ftype,
                 fhook, cursorThreadVars, qactive>>

\* lines 388-390: state.running = false; break
frame_SubscribeFailed ==
  /\ Alive /\ pcFT = "subscribe_failed"
  /\ running' = FALSE
  /\ pcFT' = "process"
  /\ UNCHANGED <<e_startup, signals, proc, mainVars, pcRT, fmsg, ftype, fhook, fsub, fretried, fstatus,
                 cursorThreadVars, qactive>>

\* line 393: the test of state.running at the head of the message loop
frame_ProcessLoop ==
  /\ Alive /\ pcFT = "process"
  /\ pcFT' = IF running THEN "process_call" ELSE "unsubscribe"
  /\ UNCHANGED <<running, e_startup, signals, proc, mainVars, pcRT,
                 fmsg, ftype, fhook, fsub, fretried, fstatus, cursorThreadVars, qactive>>

\* lines 395-406: lgmpClientProcess and the branch on its status
frame_Process(st, type) ==
  /\ Alive /\ pcFT = "process_call"
  /\ IF st = "LGMP_OK"
     THEN pcFT' = "handle" /\ fmsg' = "held" /\ ftype' = type /\ fhook' = FALSE
     ELSE IF st = "LGMP_ERR_QUEUE_EMPTY"
     THEN pcFT' = "process" /\ UNCHANGED <<fmsg, ftype, fhook>>
     ELSE pcFT' = "unsubscribe" /\ UNCHANGED <<fmsg, ftype, fhook>>
  /\ UNCHANGED <<running, e_startup, signals, proc, mainVars, pcRT, fsub,
                 fretried, fstatus, cursorThreadVars, qactive>>

\* lines 408-465: the body of the message loop; ok is what on_frame_event
\* returns
frame_Handle(ok) ==
  /\ Alive /\ pcFT = "handle"
  /\ IF FrameTypeError(ftype)
     THEN /\ fmsg' = MessageDone(fmsg)
          /\ pcFT' = "unsubscribe"
          /\ UNCHANGED fhook
     ELSE /\ fhook' = TRUE
          /\ IF ok THEN fmsg' = MessageDone(fmsg) /\ pcFT' = "process"
                   ELSE pcFT' = "unsubscribe" /\ UNCHANGED fmsg
  /\ UNCHANGED <<running, e_startup, signals, proc, mainVars, pcRT, ftype,
                 fsub, fretried, fstatus, cursorThreadVars, qactive>>

\* lines 468-470: lgmpClientUnsubscribe(&queue); queue is uninitialised when
\* no subscribe has succeeded, the call then returns or faults
frame_Unsubscribe ==
  /\ Alive /\ pcFT = "unsubscribe"
  /\ \/ /\ fsub' = FALSE
        /\ running' = FALSE
        /\ pcFT' = "done"
        /\ UNCHANGED proc
     \/ /\ ~fsub
        /\ proc' = "crashed"
        /\ UNCHANGED <<fsub, running, pcFT>>
  /\ UNCHANGED <<e_startup, signals, mainVars, pcRT, fmsg, ftype, fhook,
                 fretried, fstatus, cursorThreadVars, qactive>>

\* ---- cursorThread ----

\* line 253
cursor_Wait ==
  /\ Alive /\ pcCT = "wait"
  /\ e_startup \in {"set", "freed"}
  /\ \/ /\ pcCT' = "subscribe"
        /\ UNCHANGED proc
     \/ /\ e_startup = "freed"
        /\ proc' = "crashed"
        /\ UNCHANGED pcCT
  /\ UNCHANGED <<running, e_startup, signals, mainVars, pcRT, frameThreadVars,
                 cmsg, chook, csub, cretried, cstatus, qactive>>

\* line 256: the test of state.running at the head of the subscribe loop
cursor_SubscribeLoop ==
  /\ Alive /\ pcCT = "subscribe"
  /\ pcCT' = IF running THEN "subscribe_call" ELSE "process"
  /\ UNCHANGED <<running, e_startup, signals, proc, mainVars, pcRT, frameThreadVars,
                 cmsg, chook, csub, cretried, cstatus, qactive>>

\* lines 258-266: lgmpClientSubscribe and the branch on its status
cursor_Subscribe(st) ==
  /\ Alive /\ pcCT = "subscribe_call"
  /\ cstatus' = st
  /\ IF st = "LGMP_OK"
     THEN pcCT' = "process" /\ csub' = TRUE /\ UNCHANGED cretried
     ELSE IF SubscribeRetry(st)
     THEN pcCT' = "subscribe" /\ cretried' = TRUE /\ UNCHANGED csub
     ELSE pcCT' = "subscribe_failed" /\ UNCHANGED <<csub, cretried>>
  /\ UNCHANGED <<running, e_startup, signals, proc, mainVars, pcRT,
                 frameThreadVars, cmsg, chook, qactive>>

\* lines 268-270: state.running = false; break
cursor_SubscribeFailed ==
  /\ Alive /\ pcCT = "subscribe_failed"
  /\ running' = FALSE
  /\ pcCT' = "process"
  /\ UNCHANGED <<e_startup, signals, proc, mainVars, pcRT, frameThreadVars,
                 cmsg, chook, csub, cretried, cstatus, qactive>>

\* line 273: the test of state.running at the head of the message loop
cursor_ProcessLoop ==
  /\ Alive /\ pcCT = "process"
  /\ pcCT' = IF running THEN "process_call" ELSE "unsubscribe"
  /\ UNCHANGED <<running, e_startup, signals, proc, mainVars, pcRT, frameThreadVars,
                 cmsg, chook, csub, cretried, cstatus, qactive>>

\* lines 275-294: lgmpClientProcess and the branch on its status; on an empty
\* queue on_mouse_event is called when state.updateCursor is set
cursor_Process(st, updateCursor) ==
  /\ Alive /\ pcCT = "process_call"
  /\ IF st = "LGMP_OK"
     THEN pcCT' = "handle" /\ cmsg' = "held" /\ UNCHANGED chook
     ELSE IF st = "LGMP_ERR_QUEUE_EMPTY"
     THEN /\ pcCT' = "process"
          /\ chook' = (chook \/ updateCursor)
          /\ UNCHANGED cmsg
     ELSE pcCT' = "process_failed" /\ UNCHANGED <<cmsg, chook>>
  /\ UNCHANGED <<running, e_startup, signals, proc, mainVars, pcRT,
                 frameThreadVars, csub, cretried, cstatus, qactive>>

\* lines 296-298: state.running = false; break
cursor_ProcessFailed ==
  /\ Alive /\ pcCT = "process_failed"
  /\ running' = FALSE
  /\ pcCT' = "unsubscribe"
  /\ UNCHANGED <<e_startup, signals, proc, mainVars, pcRT, frameThreadVars,
                 cmsg, chook, csub, cretried, cstatus, qactive>>

\* lines 301-357: the body of the message loop; shape: the message carries
\* CURSOR_FLAG_SHAPE, valid: its cursor type is known, ok: what
\* on_mouse_shape returns
cursor_Handle(shape, valid, ok) ==
  /\ Alive /\ pcCT = "handle"
  /\ cmsg' = MessageDone(cmsg)
  /\ chook' = (chook \/ ~shape \/ valid)
  /\ pcCT' = "process"
  /\ UNCHANGED <<running, e_startup, signals, proc, mainVars, pcRT,
                 frameThreadVars, csub, cretried, cstatus, qactive>>

\* lines 360-362
cursor_Unsubscribe ==
  /\ Alive /\ pcCT = "unsubscribe"
  /\ \/ /\ csub' = FALSE
        /\ running' = FALSE
        /\ pcCT' = "done"
        /\ UNCHANGED proc
     \/ /\ ~csub
        /\ proc' = "crashed"
        /\ UNCHANGED <<csub, running, pcCT>>
  /\ UNCHANGED <<e_startup, signals, mainVars, pcRT, frameThreadVars,
                 cmsg, chook, cretried, cstatus, qactive>>

MainStep ==
  \/ \E ok \in BOOLEAN : main_CreateEvent(ok)
  \/ \E ok \in BOOLEAN : main_CreateRender(ok)
  \/ \E st \in InitStatuses : main_Init(st)
  \/ main_InitWait
  \/ main_CheckRunning
  \/ \E ok \in BOOLEAN : main_CreateCursor(ok)
  \/ \E ok \in BOOLEAN : main_CreateFrame(ok)
  \/ main_Loop
  \/ \E valid \in BOOLEAN : main_SessionValid(valid)
  \/ lg_shutdown_Begin
  \/ lg_shutdown_Join
  \/ lg_shutdown_Free
  \/ main_Exit

RenderThreadStep ==
  \/ \E ok \in BOOLEAN : render_Startup(ok)
  \/ \E ok \in BOOLEAN : render_Loop(ok)
  \/ render_Stop
  \/ render_JoinCursor
  \/ render_JoinFrame

FrameThreadStep ==
  \/ frame_Wait
  \/ frame_SubscribeLoop
  \/ \E st \in SubscribeStatuses(qactive["LGMP_Q_FRAME"]) : frame_Subscribe(st)
  \/ frame_SubscribeFailed
  \/ frame_ProcessLoop
  \/ \E st \in ProcessStatuses, type \in FrameTypes : frame_Process(st, type)
  \/ \E ok \in BOOLEAN : frame_Handle(ok)
  \/ frame_Unsubscribe

CursorThreadStep ==
  \/ cursor_Wait
  \/ cursor_SubscribeLoop
  \/ \E st \in SubscribeStatuses(qactive["LGMP_Q_POINTER"]) : cursor_Subscribe(st)
  \/ cursor_SubscribeFailed
  \/ cursor_ProcessLoop
  \/ \E st \in ProcessStatuses, updateCursor \in BOOLEAN :
       cursor_Process(st, updateCursor)
  \/ cursor_ProcessFailed
  \/ \E shape, valid, ok \in BOOLEAN : cursor_Handle(shape, valid, ok)
  \/ cursor_Unsubscribe

ClientNext ==
  \/ Quit /\ UNCHANGED <<textureVars, timerVars>>
  \/ (\E q \in Queues : HostActivate(q)) /\ UNCHANGED <<textureVars, timerVars>>
  \/ (\E ok \in BOOLEAN : main_CreateEvent(ok)) /\ UNCHANGED <<textureVars, timerVars>>
  \/ (\E ok \in BOOLEAN : main_CreateRender(ok)) /\ UNCHANGED <<textureVars, timerVars>>
  \/ (\E st \in InitStatuses : main_Init(st)) /\ UNCHANGED <<textureVars, timerVars>>
  \/ main_InitWait /\ UNCHANGED <<textureVars, timerVars>>
  \/ main_CheckRunning /\ UNCHANGED <<textureVars, timerVars>>
  \/ (\E ok \in BOOLEAN : main_CreateCursor(ok)) /\ UNCHANGED <<textureVars, timerVars>>
  \/ (\E ok \in BOOLEAN : main_CreateFrame(ok)) /\ UNCHANGED <<textureVars, timerVars>>
  \/ main_Loop /\ UNCHANGED <<textureVars, timerVars>>
  \/ (\E valid \in BOOLEAN : main_SessionValid(valid)) /\ UNCHANGED <<textureVars, timerVars>>
  \/ lg_shutdown_Begin /\ UNCHANGED <<textureVars, timerVars>>
  \/ lg_shutdown_Join /\ UNCHANGED <<textureVars, timerVars>>
  \/ lg_shutdown_Free /\ UNCHANGED <<textureVars, timerVars>>
  \/ main_Exit /\ UNCHANGED <<textureVars, timerVars>>
  \/ (\E ok \in BOOLEAN : render_Startup(ok)) /\ UNCHANGED <<textureVars, timerVars>>
  \/ (\E ok \in BOOLEAN : render_Loop(ok)) /\ UNCHANGED <<textureVars, timerVars>>
  \/ render_Stop /\ UNCHANGED <<textureVars, timerVars>>
  \/ render_JoinCursor /\ UNCHANGED <<textureVars, timerVars>>
  \/ render_JoinFrame /\ UNCHANGED <<textureVars, timerVars>>
  \/ frame_Wait /\ UNCHANGED <<textureVars, timerVars>>
  \/ frame_SubscribeLoop /\ UNCHANGED <<textureVars, timerVars>>
  \/ (\E st \in SubscribeStatuses(qactive["LGMP_Q_FRAME"]) : frame_Subscribe(st)) /\ UNCHANGED <<textureVars, timerVars>>
  \/ frame_SubscribeFailed /\ UNCHANGED <<textureVars, timerVars>>
  \/ frame_ProcessLoop /\ UNCHANGED <<textureVars, timerVars>>
  \/ (\E st \in ProcessStatuses, type \in FrameTypes : frame_Process(st, type)) /\ UNCHANGED <<textureVars, timerVars>>
  \/ (\E ok \in BOOLEAN : frame_Handle(ok)) /\ UNCHANGED <<textureVars, timerVars>>
  \/ frame_Unsubscribe /\ UNCHANGED <<textureVars, timerVars>>
  \/ cursor_Wait /\ UNCHANGED <<textureVars, timerVars>>
  \/ cursor_SubscribeLoop /\ UNCHANGED <<textureVars, timerVars>>
  \/ (\E st \in SubscribeStatuses(qactive["LGMP_Q_POINTER"]) : cursor_Subscribe(st)) /\ UNCHANGED <<textureVars, timerVars>>
  \/ cursor_SubscribeFailed /\ UNCHANGED <<textureVars, timerVars>>
  \/ cursor_ProcessLoop /\ UNCHANGED <<textureVars, timerVars>>
  \/ (\E st \in ProcessStatuses, updateCursor \in BOOLEAN : cursor_Process(st, updateCursor)) /\ UNCHANGED <<textureVars, timerVars>>
  \/ cursor_ProcessFailed /\ UNCHANGED <<textureVars, timerVars>>
  \/ (\E shape, valid, ok \in BOOLEAN : cursor_Handle(shape, valid, ok)) /\ UNCHANGED <<textureVars, timerVars>>
  \/ cursor_Unsubscribe /\ UNCHANGED <<textureVars, timerVars>>

SpecClient == Init /\ [][ClientNext]_vars

\* the threads are scheduled fairly and every blocking call returns
SpecClientFair ==
  /\ SpecClient
  /\ WF_vars(MainStep /\ UNCHANGED <<textureVars, timerVars>>)
  /\ WF_vars(RenderThreadStep /\ UNCHANGED <<textureVars, timerVars>>)
  /\ WF_vars(FrameThreadStep /\ UNCHANGED <<textureVars, timerVars>>)
  /\ WF_vars(CursorThreadStep /\ UNCHANGED <<textureVars, timerVars>>)

----------------------------------------------------------------------------
(* renderThread's frame timer: the loop sleeps until an absolute deadline   *)
(* that moves on by frameTime per tick, and every RESYNC_TICKS ticks        *)
(* compares the clock with the deadline.                                    *)

\* clock readings and frame times of the scenario.  The clock is read
\* `late` nanoseconds after the deadline the loop slept until.
StartTimes == {[tv_sec |-> 0, tv_nsec |-> 0], [tv_sec |-> 0, tv_nsec |-> 900000000]}
FrameTimes == {16666666, 5000000}
Lateness   == {0, 1, 1000000, 16666666, 16666667, 100000000}

\* nanoseconds from the clock reading of the drift check (line 164) to the
\* second reading made when a drift was found (line 179)
ReadDelays == {0, 1, 250, 2000000}

\* CLOCK_MONOTONIC late nanoseconds after t
ClockAfter(t, late) ==
  [tv_sec  |-> t.tv_sec + (t.tv_nsec + late) \div NSEC_PER_SEC,
   tv_nsec |-> (t.tv_nsec + late) % NSEC_PER_SEC]

\* lines 165-174: tmp after the subtraction of time
Elapsed(tmp, t) ==
  IF tmp.tv_nsec - t.tv_nsec < 0
  THEN [tv_sec  |-> tmp.tv_sec - (t.tv_sec - 1),
        tv_nsec |-> NSEC_PER_SEC + tmp.tv_nsec - t.tv_nsec]
  ELSE [tv_sec  |-> tmp.tv_sec - t.tv_sec,
        tv_nsec |-> tmp.tv_nsec - t.tv_nsec]

\* line 175
Diff(tmp) == tmp.tv_sec * NSEC_PER_SEC + tmp.tv_nsec

\* lines 212-219: the next deadline
DeadlineAdvance(t, ft) ==
  LET nsec == t.tv_nsec + ft
  IN  IF nsec > NSEC_PER_SEC
      THEN [tv_sec |-> t.tv_sec + 1, tv_nsec |-> nsec - NSEC_PER_SEC]
      ELSE [tv_sec |-> t.tv_sec, tv_nsec |-> nsec]

\* lines 150-152: the first clock reading
timer_Start ==
  /\ ~timerOn
  /\ timerOn' = TRUE
  /\ time' \in StartTimes
  /\ frameTime' \in FrameTimes
  /\ resyncCheck' = 0
  /\ UNCHANGED <<nchecks, lastCheck>>

\* lines 176-180: on a drift the clock is read again and that reading
\* becomes the deadline
Resync(t, tmp, diff, ft, delay) ==
  IF diff > ft THEN ClockAfter(tmp, delay) ELSE t

\* one turn of the loop, lines 154-221: the drift check on every
\* RESYNC_TICKS-th turn, the frame, the new deadline, the sleep
render_Tick ==
  /\ timerOn /\ nchecks < MaxChecks
  /\ IF resyncCheck + 1 = RESYNC_TICKS
     THEN \E late \in Lateness, delay \in ReadDelays :
            LET tmp  == ClockAfter(time, late)
                diff == Diff(Elapsed(tmp, time))
            IN  /\ resyncCheck' = 0
                /\ nchecks' = nchecks + 1
                /\ lastCheck' = [now |-> tmp, deadline |-> time, diff |-> diff,
                                 resynced |-> diff > frameTime, made |-> TRUE]
                /\ time' = DeadlineAdvance(Resync(time, tmp, diff, frameTime, delay),
                                           frameTime)
     ELSE /\ resyncCheck' = resyncCheck + 1
          /\ time' = DeadlineAdvance(time, frameTime)
          /\ UNCHANGED <<nchecks, lastCheck>>
  /\ UNCHANGED <<timerOn, frameTime>>

TimerNext ==
  \/ timer_Start /\ UNCHANGED <<textureVars, clientVars>>
  \/ render_Tick /\ UNCHANGED <<textureVars, clientVars>>

SpecTimer == Init /\ [][TimerNext]_vars

----------------------------------------------------------------------------
(* Claims                                                                   *)

\* how often the GL call (or store) called name occurs in a trace
Count(calls, name) == Cardinality({i \in DOMAIN calls : calls[i][1] = name})

\* the positions of name in a trace
Positions(calls, name) == {i \in DOMAIN calls : calls[i][1] = name}

\* a step of the render thread that is a whole egl_texture_bind call on a
\* streaming texture: one that returns before the fence is looked at (or a
\* step that leaves everything as that call left it)
BindStep ==
  /\ texture.streaming
  /\ pcR = "idle" /\ pcR' = "idle" /\ rop' = "bind"
  /\ pcF' = pcF /\ crashed' = crashed

\* a step of the render thread that is the entry of egl_texture_process on a
\* streaming texture (or leaves everything as that entry left it)
ProcessEntryStep ==
  /\ texture.streaming
  /\ pcR = "idle" /\ rop' = "process"
  /\ pcF' = pcF /\ crashed' = crashed

\* C1: the stage indices never cross: counting the advances since setup,
\* advances(d) <= advances(s) <= advances(u) <= advances(w).
C1_RingOrder ==
  /\ adv.d <= adv.s
  /\ adv.s <= adv.u
  /\ adv.u <= adv.w

\* C2: when update / update_from_frame observes (w+1) mod 3 = u it returns
\* true at once, without starting a copy and without changing any index;
\* and whenever w advances it does not land on u.
C2_CollisionDrops ==
  [][ /\ (pcF = "check" /\ NextIndex(fs.w) = fs.u /\ pcF' # pcF)
         => (pcF' = "idle" /\ fret' = TRUE /\ state' = state /\ tex' = tex
             /\ adv' = adv)
      /\ (adv'.w = adv.w + 1)
         => (state'.w = NextIndex(state.w) /\ state'.w # state'.u
             /\ pcF = "store")
    ]_vars

\* C2 witness: the producer has seen the collision and returned while a
\* process call is under way; w still sits right behind u.
C2_Witness ==
  /\ texture.streaming /\ warnDone /\ pcF = "idle" /\ fret
  /\ pcR # "idle"
  /\ NextIndex(state.w) = state.u

\* C3: process advances u, by one, only when the snapshot it loaded has
\* u # w, (u+1) mod 3 # s and (u+1) mod 3 # d; otherwise it returns at once:
\* no GL call, no fence, no index changed.
C3_UploadGuard ==
  [][ /\ (adv'.u = adv.u + 1)
         => (/\ rs.u # rs.w
             /\ NextIndex(rs.u) # rs.s
             /\ NextIndex(rs.u) # rs.d
             /\ rs.u = state.u
             /\ state'.u = NextIndex(state.u)
             /\ state'.w = state.w /\ state'.s = state.s /\ state'.d = state.d)
      /\ (ProcessEntryStep
          /\ (state.u = state.w \/ NextIndex(state.u) = state.s
              \/ NextIndex(state.u) = state.d))
         => (pcR' = "idle" /\ glcalls' = <<>> /\ state' = state /\ tex' = tex
             /\ adv' = adv)
    ]_vars

\* C3 witness: frames are waiting (u # w) and u has advanced before, but the
\* process call that just returned uploaded nothing because u+1 would run
\* into s or d.
C3_Witness ==
  /\ texture.streaming /\ rop = "process" /\ pcR = "idle" /\ glcalls = <<>>
  /\ rs = state /\ state.u # state.w
  /\ (NextIndex(state.u) = state.s \/ NextIndex(state.u) = state.d)
  /\ adv.u >= 1

\* C4: a process call that advances u has made exactly one fence, on the
\* slot it uploaded, and exactly one flush, both before the store of u; a
\* bind call that advances s has deleted exactly one fence, the one of the
\* slot s pointed at, and cleared that slot's handle.
C4_FencePairing ==
  [][ /\ (adv'.u = adv.u + 1)
         => (/\ Count(glcalls', "glFenceSync") = 1
             /\ Count(glcalls', "glFlush") = 1
             /\ Count(glcalls', "store_u") = 1
             /\ \A i \in Positions(glcalls', "glFenceSync") :
                  /\ glcalls'[i] = <<"glFenceSync", state.u>>
                  /\ \A j \in Positions(glcalls', "store_u") : i < j
             /\ \A i \in Positions(glcalls', "glFlush") :
                  \A j \in Positions(glcalls', "store_u") : i < j
             /\ tex'[state.u].sync # 0)
      /\ (adv'.s = adv.s + 1)
         => (/\ Count(glcalls', "glDeleteSync") = 1
             /\ \A i \in Positions(glcalls', "glDeleteSync") :
                  glcalls'[i] = <<"glDeleteSync", state.s>>
             /\ tex[state.s].sync # 0
             /\ tex'[state.s].sync = 0
             /\ \A k \in Slots \ {state.s} : tex'[k].sync = tex[k].sync)
    ]_vars

\* C4 witness: a bind call has just consumed the fence that an earlier
\* process call created.
C4_Witness ==
  /\ rop = "bind" /\ pcR = "idle"
  /\ Count(glcalls, "glDeleteSync") = 1 /\ Count(glcalls, "store_s") = 1
  /\ adv.u >= 1 /\ adv.s >= 1

\* C5: in a process call that uploads, first every mapped slot is unmapped,
\* then the planes are uploaded from slot u's PBO with no slot mapped, then
\* all TEXTURE_COUNT slots are mapped again.
C5_UnmapUploadRemap ==
  [][ /\ (pcR = "upload" /\ pcR' = "map")
         => (/\ \A i \in Slots : ~tex[i].map
             /\ Count(glcalls', "glTexSubImage2D") = texture.planeCount
             /\ \A i \in Positions(glcalls', "glTexSubImage2D") :
                  /\ glcalls'[i][2] = rs.u
                  /\ \A j \in Positions(glcalls', "glUnmapBuffer") : j < i
                  /\ \E j \in Positions(glcalls', "glBindBuffer") :
                       j < i /\ glcalls'[j] = <<"glBindBuffer", rs.u>>)
      /\ (pcR = "map" /\ pcR' = "idle")
         => (/\ \A i \in Positions(glcalls', "glMapBufferRange") :
                  \A j \in Positions(glcalls', "glTexSubImage2D") : j < i
             /\ Count(glcalls', "glMapBufferRange") = TEXTURE_COUNT
             /\ \A i \in Slots : tex'[i].map)
    ]_vars

\* C6: when bind advances d, d differed from s and d+1 differed from s (s
\* as it is after the fence of the same call), d moves by one and ends up
\* at (s-1) mod 3.
C6_DisplayGuard ==
  [][ (adv'.d = adv.d + 1)
      => (/\ rop' = "bind"
          /\ state.d # state'.s
          /\ NextIndex(state.d) # state'.s
          /\ state'.d = NextIndex(state.d)
          /\ state'.d = (state'.s + TEXTURE_COUNT - 1) % TEXTURE_COUNT)
    ]_vars

\* C6 witness: one bind call has consumed a fence and moved d.
C6_Witness ==
  /\ rop = "bind" /\ pcR = "idle"
  /\ Count(glcalls, "store_s") = 1 /\ Count(glcalls, "store_d") = 1
  /\ adv.d >= 1

\* the bind call of this step waited on a fence with a result in results
WaitedWith(results) ==
  /\ glcalls' # <<>>
  /\ glcalls'[1][1] = "glClientWaitSync"
  /\ glcalls'[1][3] \in results

\* the step of a bind call on a streaming texture that acts on the result of
\* its wait
BindFenceStep == texture.streaming /\ rop = "bind" /\ pcR = "fence" /\ pcR' # "fence"

\* the last step of a bind call that went past the fence
BindReturnStep == texture.streaming /\ rop = "bind" /\ pcR = "display" /\ pcR' = "idle"

\* C7: streaming and ready: when the wait on slot s times out, bind keeps
\* the fence, leaves s alone, binds the textures of the current slot d and
\* returns OK.
C7_TimeoutKeepsFence ==
  [][ /\ ((BindFenceStep \/ BindReturnStep) /\ texture.ready
           /\ WaitedWith({"GL_TIMEOUT_EXPIRED"}))
         => (/\ glcalls'[1][2] = state.s
             /\ tex[state.s].sync # 0
             /\ tex' = tex
             /\ state'.s = state.s
             /\ Count(glcalls', "glDeleteSync") = 0)
      /\ (BindFenceStep /\ WaitedWith({"GL_TIMEOUT_EXPIRED"}))
         => (pcR' = "display" /\ state' = state)
      /\ (BindReturnStep /\ WaitedWith({"GL_TIMEOUT_EXPIRED"}))
         => (/\ rret' = "EGL_TEX_STATUS_OK"
             /\ Count(glcalls', "glBindTexture") = texture.planeCount
             /\ \A i \in Positions(glcalls', "glBindTexture") :
                  glcalls'[i][2] = state'.d)
    ]_vars

\* C7 witness: a bind call has returned OK after its wait timed out, the
\* fence of slot s still in place.
C7_Witness ==
  /\ texture.streaming /\ texture.ready /\ rop = "bind" /\ pcR = "idle"
  /\ glcalls # <<>> /\ glcalls[1] = <<"glClientWaitSync", state.s, "GL_TIMEOUT_EXPIRED">>
  /\ tex[state.s].sync # 0
  /\ rret = "EGL_TEX_STATUS_OK"

\* C8: when the wait fails (WAIT_FAILED, INVALID_VALUE) bind deletes the
\* fence of that slot, returns ERROR, moves neither s nor d and binds nothing.
C8_WaitFailure ==
  [][ (BindFenceStep /\ texture.ready
       /\ WaitedWith({"GL_WAIT_FAILED", "GL_INVALID_VALUE"}))
      => (/\ glcalls' = << <<"glClientWaitSync", state.s, glcalls'[1][3]>>,
                           <<"glDeleteSync", state.s>> >>
          /\ tex'[state.s].sync = 0
          /\ rret' = "EGL_TEX_STATUS_ERROR"
          /\ pcR' = "idle"
          /\ state' = state
          /\ adv' = adv)
    ]_vars

\* C8 witness: a bind call has returned ERROR after a failed wait on a fence
\* that a process call had created.
C8_Witness ==
  /\ texture.streaming /\ rop = "bind" /\ pcR = "idle"
  /\ glcalls # <<>> /\ glcalls[1] = <<"glClientWaitSync", state.s, "GL_WAIT_FAILED">>
  /\ rret = "EGL_TEX_STATUS_ERROR"
  /\ tex[state.s].sync = 0
  /\ adv.u >= 1

\* C9: on a streaming texture that is not ready, bind and a process call
\* with nothing to upload return NOT_READY and change no index; ready is set
\* only at the end of a process call that uploaded, and cleared only by
\* setup.
C9_Readiness ==
  [][ /\ (texture'.ready /\ ~texture.ready)
         => (/\ texture.streaming /\ rop = "process"
             /\ pcR = "map" /\ pcR' = "idle"
             /\ Count(glcalls', "glTexSubImage2D") >= 1
             /\ Count(glcalls', "store_u") = 1)
      /\ (texture.ready /\ ~texture'.ready) => rop' = "setup"
      /\ (BindStep /\ ~texture.ready)
         => (/\ rret' = "EGL_TEX_STATUS_NOTREADY"
             /\ glcalls' = <<>>
             /\ state' = state /\ adv' = adv /\ tex' = tex)
      /\ (ProcessEntryStep /\ ~texture.ready /\ pcR' = "idle")
         => (/\ rret' = "EGL_TEX_STATUS_NOTREADY"
             /\ state' = state /\ adv' = adv /\ tex' = tex)
    ]_vars

\* C9 witness: a frame has been written, nothing has been uploaded yet, and
\* the bind call that just returned said NOT_READY.
C9_Witness ==
  /\ texture.streaming /\ ~texture.ready
  /\ rop = "bind" /\ pcR = "idle" /\ rret = "EGL_TEX_STATUS_NOTREADY"
  /\ adv.w >= 1 /\ adv.u = 0

\* C10: overrun, from a first streaming setup with the render thread
\* paused: w stops at (u-1) mod 3, u never moves, every call returns true,
\* and the slow warning is printed exactly once.
C10_Overrun ==
  /\ ~crashed
  /\ state.u = 0 /\ state.s = 0 /\ state.d = 0
  /\ adv.u = 0
  /\ adv.w <= TEXTURE_COUNT - 1
  /\ state.w = adv.w
  /\ fret = TRUE
  /\ warnings <= 1
  /\ (pcF = "idle" /\ ncalls >= TEXTURE_COUNT - 1)
       => state.w = (state.u + TEXTURE_COUNT - 1) % TEXTURE_COUNT
  /\ (pcF = "idle" /\ ncalls >= TEXTURE_COUNT) => warnings = 1
  /\ (ncalls < TEXTURE_COUNT) => warnings = 0

\* C10 witness: all MaxOverrunCalls calls have returned; w is stalled
\* right behind u and one warning was printed.
C10_Witness ==
  /\ ncalls = MaxOverrunCalls /\ pcF = "idle"
  /\ state.w = (state.u + TEXTURE_COUNT - 1) % TEXTURE_COUNT
  /\ warnings = 1 /\ fret = TRUE

\* a step taken by the frame thread (egl_texture_update or
\* egl_texture_update_from_frame)
FrameStep == pcF' # pcF \/ crashed' # crashed

\* a step taken by egl_texture_process
ProcessStep == rop' = "process" /\ ~FrameStep

\* a step taken by egl_texture_bind
BindCallStep == rop' = "bind" /\ ~FrameStep

\* C11: every index has one writer: the steps of update and
\* update_from_frame change at most w, the steps of process at most u, bind
\* at most s and d, however the two threads interleave; an index one
\* operation advanced is never written back by another.
C11_SingleWriter ==
  [][ /\ FrameStep
         => (state'.u = state.u /\ state'.s = state.s /\ state'.d = state.d)
      /\ ProcessStep
         => (state'.w = state.w /\ state'.s = state.s /\ state'.d = state.d)
      /\ BindCallStep
         => (state'.w = state.w /\ state'.u = state.u)
    ]_vars

\* C11 witness: the frame thread has published a frame while a process call
\* was between its load and its return, and every index has moved.
C11_Witness ==
  /\ pcR = "map" /\ pcF = "idle"
  /\ state.w # rs.w /\ state.u # rs.u
  /\ adv.w >= 2 /\ adv.u >= 1 /\ adv.s >= 1 /\ adv.d >= 1

\* a step that is a whole egl_texture_setup call
SetupStep == rop' = "setup" /\ ~FrameStep

\* C19: after any setup call that returns true, whatever the state before,
\* the state word is w = u = s = d = 0 and ready is false.
C19_SetupResets ==
  [][ (SetupStep /\ setupRet') => (state' = ZeroState /\ ~texture'.ready) ]_vars

\* C19 witness: setup has returned true on a texture that had uploaded
\* frames before (a fence of that time is still in its slot).
C19_Witness ==
  /\ rop = "setup" /\ setupRet
  /\ state = ZeroState /\ ~texture.ready
  /\ \E i \in Slots : tex[i].sync # 0

\* the call of this step passes the parameters of the previous setup
SameParameters ==
  /\ texture'.pixFmt = texture.pixFmt
  /\ texture'.width = texture.width /\ texture'.height = texture.height
  /\ texture'.stride = texture.stride
  /\ texture'.streaming = texture.streaming

\* C20: setup called twice in a row with the same parameters, both calls
\* returning true, leaves what the first call left: layout, offsets, buffer
\* size, plane count, formats, indices, ready, PBOs and mappings of the
\* slots, and the numbers of live GL objects.
C20_SetupIdempotent ==
  [][ (SetupStep /\ rop = "setup" /\ setupRet /\ setupRet' /\ SameParameters)
      => (/\ texture' = texture
          /\ tex' = tex
          /\ state' = state
          /\ live' = live)
    ]_vars

\* C20 witness: a three-plane texture set up after other formats, on which
\* the same setup call again changes nothing.
C20_Witness ==
  LET geo == <<texture.width, texture.height, texture.stride>>
  IN  /\ rop = "setup" /\ setupRet
      /\ texture.pixFmt = "EGL_PF_YUV420"
      /\ texture.intFormat = "GL_RGB10_A2"
      /\ texture = SetupTexture(texture, texture.pixFmt, geo, texture.streaming)
      /\ tex = SetupTex(tex, texture.pixFmt, TEXTURE_COUNT)
      /\ live = SetupLive(live, texture, tex, texture.pixFmt)
      /\ live = [textures |-> 3 * TEXTURE_COUNT, samplers |-> 3,
                 buffers |-> TEXTURE_COUNT]

\* C12: in the frame thread and in the cursor thread a message that
\* lgmpClientProcess returned is released by exactly one
\* lgmpClientMessageDone before the thread's next lgmpClientProcess and
\* before it unsubscribes, on every path of the loop body.
C12_MessageReleased ==
  /\ fmsg # "double" /\ cmsg # "double"
  /\ (pcFT \in {"process", "process_call", "unsubscribe", "done"})
       => fmsg # "held"
  /\ (pcCT \in {"process", "process_call", "process_failed", "unsubscribe", "done"})
       => cmsg # "held"

\* C13: when lgmpClientSessionValid reports the session invalid while
\* streaming, the main thread goes back to the session init loop and lg_run
\* does not return.
C13_SessionReinit ==
  [][ (pcM = "session_valid" /\ pcM' # pcM /\ pcM' # "loop")
      => (pcM' = "init" /\ ret' = "none") ]_vars

\* every thread of the client has left its loop and ended
AllTerminated ==
  \/ proc # "alive"
  \/ /\ pcM = "exit"
     /\ pcRT \in {"none", "done"}
     /\ pcFT \in {"none", "done"}
     /\ pcCT \in {"none", "done"}

\* C14: once running is false every thread (main with its session init
\* loop, render, frame, cursor) eventually leaves its loop and terminates,
\* under fair scheduling.
C14_Termination == (~running) ~> AllTerminated

\* the frame thread has called lgmpClientSubscribe or a renderer hook, or is
\* about to
FrameThreadActive ==
  \/ fstatus # "none" \/ fsub \/ fmsg # "none" \/ fhook
  \/ (pcFT = "subscribe" /\ running)
  \/ pcFT \in {"subscribe_call", "subscribe_failed", "process_call", "handle"}

\* the same for the cursor thread
CursorThreadActive ==
  \/ cstatus # "none" \/ csub \/ cmsg # "none" \/ chook
  \/ (pcCT \in {"subscribe", "process"} /\ running)
  \/ pcCT \in {"subscribe_call", "subscribe_failed", "process_call",
              "process_failed", "handle"}

\* C15: the startup event exists before any thread does; the render thread
\* signals it exactly once after render_startup has returned, whether that
\* succeeded or failed; the frame and cursor threads neither subscribe nor
\* call a renderer hook before that signal; a thread is kept waiting only
\* while render_startup has not returned, and always gets past the wait.
C15_StartupEvent ==
  /\ [](/\ (pcRT # "none" \/ pcFT # "none" \/ pcCT # "none") => e_startup # "none"
        /\ signals = IF pcRT \in {"none", "startup"} THEN 0 ELSE 1
        /\ (FrameThreadActive \/ CursorThreadActive) => signals = 1
        /\ ((pcFT = "wait" \/ pcCT = "wait") /\ e_startup = "unset")
             => pcRT = "startup")
  /\ (pcFT = "wait") ~> (pcFT # "wait" \/ proc # "alive")
  /\ (pcCT = "wait") ~> (pcCT # "wait" \/ proc # "alive")

\* C15 witness: render_startup failed, the render thread signalled and
\* ended, and both waiting threads got past the wait and ended.
C15_Witness ==
  /\ proc = "alive"
  /\ signals = 1 /\ e_startup = "set" /\ pcRT = "done" /\ pcM = "loop"
  /\ pcFT = "done" /\ pcCT = "done"
  /\ ~FrameThreadActive /\ ~CursorThreadActive

\* C16: lgmpClientInit is tried again, after a wait, as long as it returns
\* INVALID_MAGIC or INVALID_SESSION; any other failure makes lg_run return
\* -1 with no frame or cursor thread started, and running ends up false.
C16_InitRetry ==
  [][ /\ (pcM = "init" /\ pcM' # pcM)
         => (/\ status' \in {"LGMP_ERR_INVALID_MAGIC", "LGMP_ERR_INVALID_SESSION"}
                  => (pcM' = "init_wait" /\ ret' = "none")
             /\ status' = "LGMP_OK" => pcM' = "check_running"
             /\ status' = "LGMP_ERR_INVALID_VERSION"
                  => (pcM' = "shutdown" /\ ret' = "-1"))
      /\ (pcM = "init_wait" /\ pcM' # pcM) => pcM' = "init"
      /\ (status' = "LGMP_ERR_INVALID_VERSION")
         => (/\ pcFT' = "none" /\ pcCT' = "none"
             /\ ret' = "-1"
             /\ pcM' \in {"shutdown", "join_render", "free", "exit"}
             /\ (pcM' # "shutdown") => ~running')
    ]_vars

\* C16 witness: the init was retried no more after a version mismatch,
\* lg_run returned -1 and the shutdown has run.
C16_Witness ==
  /\ status = "LGMP_ERR_INVALID_VERSION" /\ ret = "-1"
  /\ pcM = "exit" /\ ~running
  /\ pcFT = "none" /\ pcCT = "none" /\ pcRT = "done"

\* the frame thread / the cursor thread tests state.running at the head of
\* its subscribe loop in this step
FrameSubscribeTest == pcFT = "subscribe" /\ pcFT' # pcFT

CursorSubscribeTest == pcCT = "subscribe" /\ pcCT' # pcCT

\* the frame thread / the cursor thread calls lgmpClientSubscribe in this step
FrameSubscribeCall == pcFT = "subscribe_call" /\ pcFT' # pcFT

CursorSubscribeCall == pcCT = "subscribe_call" /\ pcCT' # pcCT

\* the frame thread / the cursor thread takes the step after a subscribe
\* that failed for good
FrameSubscribeGiveUp == pcFT = "subscribe_failed" /\ pcFT' # pcFT

CursorSubscribeGiveUp == pcCT = "subscribe_failed" /\ pcCT' # pcCT

\* C17: the frame and cursor threads call subscribe again as long as it
\* returns NO_SUCH_QUEUE and the test of running at the loop head finds it
\* true, go to their message loop on the first OK, and on any other status
\* set running = false and handle no message; a queue activated after the
\* first call is subscribed by a later call.
C17_SubscribeRetry ==
  [][ /\ FrameSubscribeTest
         => pcFT' = IF running THEN "subscribe_call" ELSE "process"
      /\ FrameSubscribeCall
         => (/\ fstatus' = "LGMP_OK" => (fsub' /\ pcFT' = "process")
             /\ fstatus' = "LGMP_ERR_NO_SUCH_QUEUE"
                  => (~fsub' /\ pcFT' = "subscribe" /\ fretried')
             /\ fstatus' \notin {"LGMP_OK", "LGMP_ERR_NO_SUCH_QUEUE"}
                  => (~fsub' /\ pcFT' = "subscribe_failed")
             /\ running' = running)
      /\ FrameSubscribeGiveUp
         => (~running' /\ ~fsub' /\ pcFT' = "process" /\ fmsg' = "none")
      /\ CursorSubscribeTest
         => pcCT' = IF running THEN "subscribe_call" ELSE "process"
      /\ CursorSubscribeCall
         => (/\ cstatus' = "LGMP_OK" => (csub' /\ pcCT' = "process")
             /\ cstatus' = "LGMP_ERR_NO_SUCH_QUEUE"
                  => (~csub' /\ pcCT' = "subscribe" /\ cretried')
             /\ cstatus' \notin {"LGMP_OK", "LGMP_ERR_NO_SUCH_QUEUE"}
                  => (~csub' /\ pcCT' = "subscribe_failed")
             /\ running' = running)
      /\ CursorSubscribeGiveUp
         => (~running' /\ ~csub' /\ pcCT' = "process" /\ cmsg' = "none")
      /\ (fmsg' # "none") => fstatus' = "LGMP_OK"
      /\ (cmsg' # "none") => cstatus' = "LGMP_OK"
      /\ (fretried' /\ fstatus' = "LGMP_OK") => qactive'["LGMP_Q_FRAME"]
      /\ (cretried' /\ cstatus' = "LGMP_OK") => qactive'["LGMP_Q_POINTER"]
    ]_vars

\* C17 witness: the frame queue was inactive at the first subscribe, active
\* at a later one, and the frame thread now holds a message of it.
C17_Witness ==
  /\ fretried /\ fstatus = "LGMP_OK" /\ fsub
  /\ pcFT = "handle" /\ fmsg = "held"
  /\ cretried /\ cstatus = "LGMP_OK" /\ csub

\* C18: on a frame whose type is none of RGBA, BGRA, RGBA10, YUV420 the frame
\* thread releases the message once, does not call on_frame_event, leaves
\* the loop, unsubscribes and sets running = false.
C18_UnsupportedFrame ==
  [][ /\ (/\ pcFT = "handle" /\ pcFT' # pcFT
          /\ ftype \notin {"FRAME_TYPE_RGBA", "FRAME_TYPE_BGRA",
                           "FRAME_TYPE_RGBA10", "FRAME_TYPE_YUV420"})
         => (/\ fmsg = "held" /\ fmsg' = "done"
             /\ ~fhook'
             /\ pcFT' = "unsubscribe")
      /\ (pcFT = "unsubscribe" /\ pcFT' # pcFT)
         => (/\ pcFT' = "done"
             /\ ~fsub' /\ ~running'
             /\ fmsg' = fmsg /\ fhook' = fhook)
    ]_vars

\* C18 witness: the frame thread has ended after a frame of unknown type.
C18_Witness ==
  /\ pcFT = "done" /\ ftype = "FRAME_TYPE_INVALID"
  /\ fmsg = "done" /\ ~fhook
  /\ ~fsub /\ ~running

\* C21: a successful streaming setup followed by free, with any update,
\* process and bind calls in between, leaves no PBO, texture, sampler or fence
\* alive and no slot mapped; every object is deleted exactly once.
C21_FreeReleasesAll ==
  (rop = "free" /\ texture.streaming /\ setupRet)
    => (/\ live = ZeroLive
        /\ ~lostFence
        /\ \A i \in Slots : ~tex[i].hasPBO /\ ~tex[i].map /\ tex[i].sync = 0
        /\ Count(glcalls, "glDeleteBuffers") = TEXTURE_COUNT
        /\ Count(glcalls, "glDeleteSamplers") = 1
        /\ Count(glcalls, "glDeleteTextures") = TEXTURE_COUNT)

\* C21 witness: free has run on a streaming texture that had frames in
\* flight: it deleted fences and unmapped slots.
C21_Witness ==
  /\ rop = "free" /\ texture.streaming /\ setupRet
  /\ adv.w >= 2 /\ adv.d >= 1
  /\ Count(glcalls, "glDeleteSync") >= 1
  /\ Count(glcalls, "glUnmapBuffer") = TEXTURE_COUNT
  /\ live = ZeroLive

\* every call named A comes before every call named B
AllBefore(calls, A, B) ==
  \A i \in Positions(calls, A) : \A j \in Positions(calls, B) : i < j

\* the positions of the calls free makes for one slot
SlotPositions(calls, slot) ==
  {i \in DOMAIN calls : Len(calls[i]) >= 2 /\ calls[i][1] # "glDeleteSamplers"
                          /\ calls[i][2] = slot}

\* the position of the call name(slot) where there is one
SlotCall(calls, name, slot) ==
  {i \in DOMAIN calls : calls[i][1] = name /\ calls[i][2] = slot}

\* C22 as stated: free unmaps all PBOs, then deletes the PBOs, then the
\* textures, then the samplers, then the fences.
C22_TeardownOrder ==
  (rop = "free" /\ setupRet)
    => (/\ AllBefore(glcalls, "glUnmapBuffer", "glDeleteBuffers")
        /\ AllBefore(glcalls, "glDeleteBuffers", "glDeleteTextures")
        /\ AllBefore(glcalls, "glDeleteTextures", "glDeleteSamplers")
        /\ AllBefore(glcalls, "glDeleteSamplers", "glDeleteSync"))

\* C22 amended: free deletes the samplers first; then slot by slot it unmaps
\* the slot's PBO, deletes the PBO, deletes the slot's fence and deletes the
\* slot's textures, finishing one slot before starting the next.
C22_TeardownOrderPerSlot ==
  (rop = "free" /\ setupRet)
    => (/\ Positions(glcalls, "glDeleteSamplers") = {1}
        /\ \A i \in Slots :
             /\ \A a \in SlotCall(glcalls, "glUnmapBuffer", i) :
                  \A b \in SlotCall(glcalls, "glDeleteBuffers", i) : a < b
             /\ \A a \in SlotCall(glcalls, "glDeleteBuffers", i) :
                  \A b \in SlotCall(glcalls, "glDeleteSync", i) : a < b
             /\ \A a \in SlotCall(glcalls, "glDeleteBuffers", i)
                           \cup SlotCall(glcalls, "glDeleteSync", i) :
                  \A b \in SlotCall(glcalls, "glDeleteTextures", i) : a < b
             /\ \A j \in Slots :
                  i < j => \A a \in SlotPositions(glcalls, i) :
                             \A b \in SlotPositions(glcalls, j) : a < b)

\* C22 witness: free has torn down a streaming texture with mapped PBOs in all
\* slots and a fence outstanding in a slot that is not the last.
C22_Witness ==
  /\ rop = "free" /\ setupRet /\ texture.streaming
  /\ Count(glcalls, "glUnmapBuffer") = TEXTURE_COUNT
  /\ SlotCall(glcalls, "glDeleteSync", 0) # {}
  /\ Count(glcalls, "glDeleteTextures") = TEXTURE_COUNT

\* the slots whose textures a trace binds
BoundSlots(calls) == {calls[i][2] : i \in Positions(calls, "glBindTexture")}

\* the names of the calls of a trace
CallNames(calls) == {calls[i][1] : i \in DOMAIN calls}

\* what holds in every state of a texture that is not streaming
NonStreamingState ==
  ~texture.streaming =>
    /\ state = ZeroState
    /\ pcF = "idle" /\ pcR = "idle"
    /\ BoundSlots(fcalls) \subseteq {0}
    /\ CallNames(fcalls) \subseteq {"glBindTexture", "glPixelStorei", "glTexSubImage2D"}
    /\ (fcalls # <<>> => fret /\ Count(fcalls, "glTexSubImage2D") = texture.planeCount)
    /\ (rop = "process" => rret = "EGL_TEX_STATUS_OK" /\ glcalls = <<>>)
    /\ (rop = "bind" =>
          /\ rret = "EGL_TEX_STATUS_OK"
          /\ glcalls = BindCalls(texture, 0)
          /\ CallNames(glcalls) \subseteq {"glBindTexture", "glBindSampler"}
          /\ (fcalls # <<>> => BoundSlots(glcalls) = BoundSlots(fcalls)))

\* what update, process and bind leave alone on such a texture
NonStreamingStep ==
  (~texture.streaming /\ rop' \in {"process", "bind"} /\ texture' = texture)
    => (/\ state' = state /\ tex' = tex /\ live' = live
        /\ texture' = texture /\ crashed' = crashed)

\* C23: on a texture that is not streaming update uploads straight into the
\* textures of slot 0 without a PBO, process returns OK and does nothing, bind
\* binds the textures of slot 0 without a fence wait or a readiness test, and
\* the state word stays 0, so that bind binds the slot update wrote.
C23_NonStreaming == []NonStreamingState /\ [][NonStreamingStep]_vars

\* C23 witness: a bind after a direct upload on a texture that is not
\* streaming and was never marked ready.
C23_Witness ==
  /\ ~texture.streaming /\ setupRet /\ ~texture.ready
  /\ Count(fcalls, "glTexSubImage2D") = 3
  /\ rop = "bind" /\ Count(glcalls, "glBindTexture") = 3

\* the row of the pixel format table for a format, height h and stride s
TableRow(pixFmt, h, s) ==
  CASE pixFmt = "EGL_PF_BGRA" ->
         [planes |-> 1, intFormat |-> "GL_BGRA", format |-> "GL_BGRA",
          dataType |-> "GL_UNSIGNED_BYTE", offsets |-> <<0>>]
    [] pixFmt = "EGL_PF_RGBA" ->
         [planes |-> 1, intFormat |-> "GL_BGRA", format |-> "GL_RGBA",
          dataType |-> "GL_UNSIGNED_BYTE", offsets |-> <<0>>]
    [] pixFmt = "EGL_PF_RGBA10" ->
         [planes |-> 1, intFormat |-> "GL_RGB10_A2", format |-> "GL_RGBA",
          dataType |-> "GL_UNSIGNED_INT_2_10_10_10_REV", offsets |-> <<0>>]
    [] pixFmt = "EGL_PF_YUV420" ->
         [planes |-> 3, intFormat |-> "GL_RED", format |-> "GL_RED",
          dataType |-> "GL_UNSIGNED_BYTE",
          offsets |-> <<0, h * s, h * s + (h * s) \div 4>>]

\* the texture carries the row of the format it was last set up with
HasTableRow(t) ==
  LET row == TableRow(t.pixFmt, t.height, t.stride)
  IN  /\ t.planeCount = row.planes
      /\ t.intFormat = row.intFormat
      /\ t.format = row.format
      /\ t.dataType = row.dataType
      /\ \A p \in Planes : p < row.planes => t.offsets[p] = row.offsets[p + 1]

\* C24: after a setup that returned true the plane count, internal format,
\* format, data type and plane offsets of the texture are those of the row of
\* the format just configured, whatever was configured before.
C24_FormatTable == (rop = "setup" /\ setupRet) => HasTableRow(texture)

\* a setup call that got past the format switch allocates samplers and
\* textures when its format has more planes than the texture had, and
\* otherwise none
SetupAllocation ==
  (SetupStep /\ texture'.pixFmt \in PixelFormats)
    => IF FormatPlaneCount(texture'.pixFmt) > egl_texture_count(texture)
       THEN /\ live'.samplers = FormatPlaneCount(texture'.pixFmt)
            /\ live'.textures = TEXTURE_COUNT * FormatPlaneCount(texture'.pixFmt)
       ELSE /\ live'.samplers = live.samplers
            /\ live'.textures = live.textures

\* count() is the plane count of the format last configured
CountFollowsFormat ==
  (rop = "setup" /\ setupRet)
    => egl_texture_count(texture) = FormatPlaneCount(texture.pixFmt)

\* C25: after any sequence of successful setup calls count() is the plane
\* count of the format configured last (1 for BGRA, RGBA and RGBA10, 3 for
\* YUV420); a setup with more planes replaces samplers and textures, one with
\* as many or fewer allocates none.
C25_PlaneCount == []CountFollowsFormat /\ [][SetupAllocation]_vars

\* the row lengths of the sub-image uploads of a trace, in order
UploadRowLengths(calls) ==
  LET ups == SelectSeq(calls, LAMBDA c : c[1] = "glTexSubImage2D")
  IN  [i \in DOMAIN ups |-> ups[i][4]]

\* the offsets of the sub-image uploads of a trace, in order
UploadOffsets(calls) ==
  LET ups == SelectSeq(calls, LAMBDA c : c[1] = "glTexSubImage2D")
  IN  [i \in DOMAIN ups |-> ups[i][7]]

\* a process call has issued its uploads
Uploaded == rop = "process" /\ pcR \in {"map", "idle"} /\ glcalls # <<>>

\* C26: YUV420 with height h and stride s, h*s a multiple of 4 and s even:
\* the offsets are 0, h*s and h*s + h*s/4, the PBO holds h*s*3/2 bytes and a
\* process call that uploads issues three sub-image uploads with row lengths
\* s, s/2, s/2; 640x480 with stride 640 gives 0, 307200, 384000, 460800 bytes
\* and row lengths 640, 320, 320.
C26_YUV420Layout ==
  LET h == texture.height
      s == texture.stride
  IN  (/\ texture.pixFmt = "EGL_PF_YUV420" /\ setupRet
       /\ (h * s) % 4 = 0 /\ s % 2 = 0)
        => /\ texture.offsets[0] = 0
           /\ texture.offsets[1] = h * s
           /\ texture.offsets[2] = h * s + (h * s) \div 4
           /\ 2 * texture.pboBufferSize = h * s * 3
           /\ Uploaded =>
                /\ UploadRowLengths(glcalls) = <<s, s \div 2, s \div 2>>
                /\ UploadOffsets(glcalls) = <<0, h * s, h * s + (h * s) \div 4>>
           /\ (h = 480 /\ s = 640) =>
                /\ texture.offsets = [p \in Planes |-> <<0, 307200, 384000>>[p + 1]]
                /\ texture.pboBufferSize = 460800
                /\ Uploaded => UploadRowLengths(glcalls) = <<640, 320, 320>>

\* C26 witness: a 640x480 YUV420 frame with stride 640 has been uploaded by
\* process.
C26_Witness ==
  /\ texture.pixFmt = "EGL_PF_YUV420" /\ setupRet
  /\ texture.height = 480 /\ texture.stride = 640
  /\ Uploaded /\ pcR = "idle"
  /\ Count(glcalls, "glTexSubImage2D") = 3

\* the number of the last frame stored in a slot, 0 when there is none:
\* frame k goes to slot (k - 1) % TEXTURE_COUNT
FrameIn(slot) ==
  LET ks == {k \in 1..adv.w : (k - 1) % TEXTURE_COUNT = slot}
  IN  IF ks = {} THEN 0 ELSE CHOOSE k \in ks : \A j \in ks : j <= k

\* C27: from a fresh streaming setup, with 5 frames handed over while the
\* renderer calls process and bind and the fence waits succeed, no frame is
\* dropped and nothing stops the pipeline, the k-th upload takes frame k and
\* the k-th slot bind puts on display is the one of the k-th upload, and
\* after 5 update calls, 3 uploads and 3 successful fence waits d is 2.
C27_FramesInOrder ==
  /\ state.w = adv.w % TEXTURE_COUNT /\ state.u = adv.u % TEXTURE_COUNT
  /\ ~crashed /\ warnings = 0
  /\ pcF = "idle" => adv.w = ticks
  /\ pcR = "upload" => FrameIn(rs.u) = adv.u + 1
  /\ (rop = "bind" /\ rret = "EGL_TEX_STATUS_OK")
       => /\ state.d = adv.d % TEXTURE_COUNT
          /\ adv.d + 1 <= adv.u
          /\ BoundSlots(glcalls) = {state.d}
  /\ (ticks = 5 /\ pcF = "idle" /\ pcR = "idle" /\ adv.u = 3 /\ adv.s = 3)
       => state.d = 2

\* now - deadline in nanoseconds
TrueElapsed(now, deadline) ==
  (now.tv_sec - deadline.tv_sec) * NSEC_PER_SEC + (now.tv_nsec - deadline.tv_nsec)

\* C28: at a drift check the value the loop compares with frameTime is
\* now - deadline in nanoseconds, also when now.tv_nsec < deadline.tv_nsec,
\* and the deadline is resynchronised exactly when that exceeds frameTime.
C28_ResyncElapsed ==
  lastCheck.made =>
    /\ lastCheck.diff = TrueElapsed(lastCheck.now, lastCheck.deadline)
    /\ lastCheck.resynced
         <=> (TrueElapsed(lastCheck.now, lastCheck.deadline) > frameTime)

\* C29: from the producer's load of the state word to the end of its copy
\* the slot it copies into is mapped, and the mapping it writes through is
\* not taken away by a process call of the render thread.
C29_MappedDuringCopy ==
  (texture.streaming /\ ~crashed)
    => /\ (pcF = "copy" /\ ~Collides(fs)) => tex[fs.w].map
       /\ pcF = "copying" => (tex[fs.w].map /\ fmapValid)

\* C30: the producer never copies into the buffer of a slot whose upload
\* fence is outstanding.
C30_NoWriteUnderFence ==
  (texture.streaming /\ pcF = "copying") => tex[fs.w].sync = 0

\* slot i has been uploaded since the last setup: uploads go round the ring
\* from slot 0
UploadedSinceSetup(i) == adv.u >= i + 1

\* C31: the slot whose textures a streaming bind binds has been uploaded
\* since setup and has no outstanding fence, also when the wait on slot s
\* timed out.
C31_BoundSlotReady ==
  (texture.streaming /\ rop = "bind" /\ rret = "EGL_TEX_STATUS_OK")
    => /\ BoundSlots(glcalls) = {state.d}
       /\ UploadedSinceSetup(state.d)
       /\ tex[state.d].sync = 0

\* C32: after any setup call no slot holds a fence, and process never stores
\* a new fence over one that is still outstanding.
C32_SetupClearsFences ==
  /\ rop = "setup" => \A i \in Slots : tex[i].sync = 0
  /\ ~lostFence

\* frame k has been on display: the first once a wait has been signalled,
\* the k-th once d has moved k - 1 times
FrameBound(k) == IF k = 1 THEN adv.s >= 1 ELSE adv.d >= k - 1

\* C33: with a render thread that keeps calling process and bind, fences that
\* are signalled in the end and no failed wait, every frame the producer
\* handed over (w advanced) is uploaded and bound in the end.
C33_FramesReachDisplay ==
  \A k \in 1..MaxAdvance :
    (adv.w >= k) ~> (adv.u >= k /\ FrameBound(k))

\* bind has just returned ERROR for a failed wait, s has advanced n times
\* and the producer has frames left to hand over
FailedWaitAt(n) ==
  /\ rop = "bind" /\ rret = "EGL_TEX_STATUS_ERROR"
  /\ adv.s = n /\ adv.w < MaxAdvance

\* C34: after bind has returned ERROR for a failed fence wait the pipeline
\* goes on: with the producer, process and bind still being called, s
\* advances again.
C34_ProgressAfterError ==
  \A n \in 0..MaxAdvance : FailedWaitAt(n) ~> (adv.s > n)

\* C35: after a streaming bind that returned OK, once s has advanced since
\* setup, d is the slot before s.
C35_DisplayFollowsSync ==
  (texture.streaming /\ rop = "bind" /\ rret = "EGL_TEX_STATUS_OK" /\ adv.s >= 1)
    => /\ NextIndex(state.d) = state.s
       /\ adv.d + 1 = adv.s

\* C35 witness: bind has returned OK after s went round to slot 0 again, with
\* slot 2 on display.
C35_Witness ==
  /\ texture.streaming /\ rop = "bind" /\ rret = "EGL_TEX_STATUS_OK"
  /\ adv.s = TEXTURE_COUNT /\ state.s = 0 /\ state.d = 2

\* the step of process that uploads slot u and stores its fence
UploadStep == pcR = "upload" /\ pcR' = "map"

\* C36: when process uploads while ready is already true, the slot it writes
\* is not the slot on display and holds no outstanding fence.
C36_UploadAvoidsDisplay ==
  [][ (UploadStep /\ texture.ready)
        => (rs.u # state.d /\ tex[rs.u].sync = 0) ]_vars

\* C37: after any successful setup calls followed by free no PBO, texture,
\* sampler or fence is left and no slot is mapped.
C37_FreeAfterAnySetups ==
  (rop = "free" /\ setupRet)
    => /\ live = ZeroLive
       /\ \A i \in Slots : ~tex[i].hasPBO /\ ~tex[i].map /\ tex[i].sync = 0

\* the arguments update_from_frame hands to framebuffer_read besides the
\* frame and the destination: dstpitch, height, width, bpp, pitch
FrameReadArgs(t) ==
  [dstpitch |-> t.stride, height |-> t.height, width |-> t.width,
   bpp |-> t.bpp, pitch |-> t.stride]

\* framebuffer_read copies the frame row by row: height rows, each taking
\* dstpitch bytes of the destination
FramebufferReadBytes(a) == a.height * a.dstpitch

\* C38: whenever the frame thread copies into a slot, the bytes
\* update_from_frame asks framebuffer_read for (height rows of stride
\* bytes) are the whole slot buffer, pboBufferSize.
C38_FrameFillsBuffer ==
  (pcF = "copying" /\ texture.pixFmt \in PixelFormats)
    => FramebufferReadBytes(FrameReadArgs(texture)) = texture.pboBufferSize

\* the frame thread is about to call lgmpClientProcess, is between that call
\* and lgmpClientMessageDone, or is about to call lgmpClientUnsubscribe
FrameQueueUse ==
  \/ pcFT = "process" /\ running
  \/ pcFT \in {"process_call", "handle", "unsubscribe"}

CursorQueueUse ==
  \/ pcCT = "process" /\ running
  \/ pcCT \in {"process_call", "handle", "unsubscribe"}

\* C39: the frame and cursor threads use their queue handle (process,
\* message_done, unsubscribe) only when a subscribe has succeeded; a thread
\* whose subscribe never succeeded does not reach unsubscribe.
C39_QueueUseAfterSubscribe ==
  /\ FrameQueueUse => fsub
  /\ CursorQueueUse => csub

\* the step of renderThread that passes the frame thread's join, calls
\* deinitialize and clears state.lgr
RenderDeinitialize == pcRT = "join_frame" /\ pcRT' = "done"

\* the frame and cursor threads have returned or were never created
ThreadsOver == pcCT \in {"none", "done"} /\ pcFT \in {"none", "done"}

\* a thread is at a point where it calls a renderer hook
HookPending ==
  \/ pcCT \in {"process_call", "handle"} \/ (pcCT = "process" /\ running)
  \/ pcFT = "handle"

\* no renderer hook can be called once the render thread has returned
NoHookAfterRender == pcRT = "done" => ~HookPending

\* C40: the render thread calls deinitialize only when the frame and cursor
\* threads have terminated, however the thread creation of lg_run
\* interleaves with its exit, and no renderer hook is called afterwards.
C40_DeinitAfterThreads ==
  /\ [][RenderDeinitialize => ThreadsOver]_vars
  /\ []NoHookAfterRender

====
